---- MODULE Spec2Model ----
(***************************************************************************)
(* Trading data server: the signal detector (signal_detector.py), its     *)
(* per-symbol cache of previous indicator values, and the trading_signals *)
(* table it appends to (database.py).                                     *)
(*                                                                         *)
(* Python values.  An optional number (a float or None) is a sequence of  *)
(* length at most one: None is << >> and the number v is <<v>>.  A dict   *)
(* is a function whose DOMAIN is its key set; d.get(k) is Get(d, k).      *)
(* Indicator values are floats in the program and integers here: the      *)
(* rules only compare them with each other and with integer thresholds.   *)
(***************************************************************************)
EXTENDS Integers, Sequences, FiniteSets, TLC

VARIABLES
    _last_values,     \* SignalDetector._last_values: symbol -> dict of the previous call
    trading_signals,  \* rows of table trading_signals, in insertion order
    signal_seq,       \* AUTOINCREMENT counter of trading_signals (last id handed out)
    call,             \* the latest check_all_signals call: its arguments and outcome
    caller_dict,      \* the dict object the caller of the latest call still holds
    calls,            \* number of check_all_signals calls made so far
    trading_indicators,  \* rows of table trading_indicators, in insertion order
    indicator_seq,    \* AUTOINCREMENT counter of trading_indicators
    latest_indicators,   \* table latest_indicators: <<symbol, indicator_name>> -> row
    now,              \* the clock, in seconds
    background,       \* the background tasks added and not yet run
    response,         \* the latest database or HTTP operation: its arguments and outcome
    ingested,         \* per accepted webhook, in order: its symbol, its body and
                      \* the dict of latest values of that symbol right after it
    WEBHOOK_SECRET,   \* os.getenv("WEBHOOK_SECRET", "your-secret-here") at start-up
    exchange_positions,  \* rows of table exchange_positions, in insertion order
    exchange_balances    \* rows of table exchange_balances, in insertion order

\* the state of the detector and the signal table
detector_vars == <<_last_values, trading_signals, signal_seq, call, caller_dict, calls>>

\* the state of the indicator tables, the clock and the web application
store_vars == <<trading_indicators, indicator_seq, latest_indicators, now,
                background, response, ingested, WEBHOOK_SECRET,
                exchange_positions, exchange_balances>>

\* the configured secret and the tables of the exchange accounts
environment_vars == <<WEBHOOK_SECRET, exchange_positions, exchange_balances>>

vars == <<_last_values, trading_signals, signal_seq, call, caller_dict, calls,
          trading_indicators, indicator_seq, latest_indicators, now,
          background, response, ingested, WEBHOOK_SECRET,
          exchange_positions, exchange_balances>>

----------------------------------------------------------------------------
(* Bounds of the model *)

\* number of check_all_signals calls in one run
MaxCalls == 2

\* number of check_all_signals calls in one run of SpecCache
MaxCacheCalls == 3

\* the save_signal calls of one check_all_signals call that may raise: the
\* first MaxFailAt of them (a call makes at most four, one per rule)
MaxFailAt == 4

\* the seconds of one day of the model's clock (86400 in the program)
SecondsPerDay == 2

\* the seconds of one hour of the model's clock (3600 in the program)
SecondsPerHour == 1

\* the longest window asked of get_indicator_history, in hours
MaxHours == 3

\* detector calls in the runs of the signal log
MaxLogCalls == 2

\* detector calls in the runs of the signal log with the indicator history
MaxRetentionCalls == 1

\* the last second of the clock in the runs of the signal log
MaxLogNow == 3

\* detector calls in the runs of the signal queries
MaxQueryCalls == 3

\* the largest limit given to get_signals
MaxLimit == 2

\* the clock runs from 0 to MaxNow
MaxNow == 4

\* the retention thresholds given to cleanup_old_data: 1..MaxDays days
MaxDays == 2

\* number of rows inserted into trading_indicators in one run of SpecRecord
MaxIndicatorRows == 3

\* number of rows inserted into trading_indicators in one run of SpecStore
MaxStoreRows == 2

\* number of webhook requests accepted in one run
MaxRequests == 2

\* number of webhook requests accepted in one run of SpecSerial
MaxSerialRequests == 3

\* number of webhook requests accepted in one run of SpecIngest
MaxCompositeRequests == 1

----------------------------------------------------------------------------
(* Program constants *)

RSI_OVERSOLD == 30
RSI_EXTREME_OVERSOLD == 20
RSI_OVERBOUGHT == 70
RSI_EXTREME_OVERBOUGHT == 80
\* the literal of "if abs(diff) > 500"
MACD_DIVERGENCE == 500

----------------------------------------------------------------------------
(* Python values *)

None == << >>

Some(v) == <<v>>

\* bool(x) of an optional number: None and 0 are falsy
Truthy(x) == x # None /\ x[1] # 0

\* the expression "a or b"
Or(a, b) == IF Truthy(a) THEN a ELSE b

EmptyDict == [k \in {} |-> None]

\* d.get(k): the value under k, None when k is not a key
Get(d, k) == IF k \in DOMAIN d THEN d[k] ELSE None

\* abs(x)
Abs(x) == IF x < 0 THEN -x ELSE x

\* an f-string message: its fixed text and the one number formatted into it
\* (None when the text has no placeholder)
Message(text, arg) == [text |-> text, arg |-> arg]

----------------------------------------------------------------------------
(* The four rules of the detector.  Each returns None or Some(draft), a    *)
(* draft being the dict the rule builds.                                   *)

Draft(signal_type, direction, strength, message) ==
    [signal_type |-> signal_type, direction |-> direction,
     strength |-> strength, message |-> message]

_check_rsi(current_rsi, prev_rsi) ==
    IF current_rsi = None THEN None
    ELSE IF /\ Truthy(prev_rsi)
            /\ prev_rsi[1] > RSI_OVERSOLD
            /\ current_rsi[1] <= RSI_OVERSOLD
    THEN Some(Draft("RSI_OVERSOLD", "BULLISH",
                    IF current_rsi[1] <= RSI_EXTREME_OVERSOLD
                    THEN "STRONG" ELSE "MEDIUM",
                    Message("RSI dropped to {:.1f} (oversold zone)", current_rsi)))
    ELSE IF /\ Truthy(prev_rsi)
            /\ prev_rsi[1] < RSI_OVERBOUGHT
            /\ current_rsi[1] >= RSI_OVERBOUGHT
    THEN Some(Draft("RSI_OVERBOUGHT", "BEARISH",
                    IF current_rsi[1] >= RSI_EXTREME_OVERBOUGHT
                    THEN "STRONG" ELSE "MEDIUM",
                    Message("RSI rose to {:.1f} (overbought zone)", current_rsi)))
    ELSE IF current_rsi[1] <= RSI_EXTREME_OVERSOLD
    THEN Some(Draft("RSI_EXTREME_OVERSOLD", "BULLISH", "STRONG",
                    Message("RSI at extreme oversold: {:.1f}", current_rsi)))
    ELSE IF current_rsi[1] >= RSI_EXTREME_OVERBOUGHT
    THEN Some(Draft("RSI_EXTREME_OVERBOUGHT", "BEARISH", "STRONG",
                    Message("RSI at extreme overbought: {:.1f}", current_rsi)))
    ELSE None

\* _check_macd with the divergence test ahead of the two cross tests
_check_macd_divergence_first(macd_line, macd_signal, histogram, prev_histogram) ==
    IF histogram = None THEN None
    ELSE IF /\ macd_line # None /\ macd_signal # None
            /\ Abs(macd_line[1] - macd_signal[1]) > MACD_DIVERGENCE
    THEN Some(Draft("MACD_DIVERGENCE",
                    IF macd_line[1] > macd_signal[1] THEN "BULLISH" ELSE "BEARISH",
                    "WEAK",
                    IF macd_line[1] > macd_signal[1]
                    THEN Message("MACD shows strong bullish divergence", None)
                    ELSE Message("MACD shows strong bearish divergence", None)))
    ELSE IF prev_histogram # None /\ prev_histogram[1] < 0 /\ histogram[1] >= 0
    THEN Some(Draft("MACD_BULLISH_CROSS", "BULLISH", "MEDIUM",
                    Message("MACD histogram crossed above zero", None)))
    ELSE IF prev_histogram # None /\ prev_histogram[1] > 0 /\ histogram[1] <= 0
    THEN Some(Draft("MACD_BEARISH_CROSS", "BEARISH", "MEDIUM",
                    Message("MACD histogram crossed below zero", None)))
    ELSE None

\* _check_macd with "abs(diff) >= 500" for "abs(diff) > 500"
_check_macd_at_least_500(macd_line, macd_signal, histogram, prev_histogram) ==
    IF histogram = None THEN None
    ELSE IF prev_histogram # None /\ prev_histogram[1] < 0 /\ histogram[1] >= 0
    THEN Some(Draft("MACD_BULLISH_CROSS", "BULLISH", "MEDIUM",
                    Message("MACD histogram crossed above zero", None)))
    ELSE IF prev_histogram # None /\ prev_histogram[1] > 0 /\ histogram[1] <= 0
    THEN Some(Draft("MACD_BEARISH_CROSS", "BEARISH", "MEDIUM",
                    Message("MACD histogram crossed below zero", None)))
    ELSE IF /\ macd_line # None /\ macd_signal # None
            /\ Abs(macd_line[1] - macd_signal[1]) >= MACD_DIVERGENCE
    THEN Some(Draft("MACD_DIVERGENCE",
                    IF macd_line[1] > macd_signal[1] THEN "BULLISH" ELSE "BEARISH",
                    "WEAK",
                    IF macd_line[1] > macd_signal[1]
                    THEN Message("MACD shows strong bullish divergence", None)
                    ELSE Message("MACD shows strong bearish divergence", None)))
    ELSE None

_check_macd(macd_line, macd_signal, histogram, prev_histogram) ==
    IF histogram = None THEN None
    ELSE IF prev_histogram # None /\ prev_histogram[1] < 0 /\ histogram[1] >= 0
    THEN Some(Draft("MACD_BULLISH_CROSS", "BULLISH", "MEDIUM",
                    Message("MACD histogram crossed above zero", None)))
    ELSE IF prev_histogram # None /\ prev_histogram[1] > 0 /\ histogram[1] <= 0
    THEN Some(Draft("MACD_BEARISH_CROSS", "BEARISH", "MEDIUM",
                    Message("MACD histogram crossed below zero", None)))
    ELSE IF macd_line # None /\ macd_signal # None
    THEN LET diff == macd_line[1] - macd_signal[1]
             direction == IF diff > 0 THEN "BULLISH" ELSE "BEARISH"
         IN  IF Abs(diff) > MACD_DIVERGENCE
             THEN Some(Draft("MACD_DIVERGENCE", direction, "WEAK",
                             IF direction = "BULLISH"
                             THEN Message("MACD shows strong bullish divergence", None)
                             ELSE Message("MACD shows strong bearish divergence", None)))
             ELSE None
    ELSE None

\* _check_200ma with "price >= ma_200" for "price > ma_200"
_check_200ma_or_equal(price, ma_200, prev_price, prev_ma) ==
    IF price = None \/ ma_200 = None THEN None
    ELSE IF prev_price # None /\ prev_ma # None
    THEN IF prev_price[1] < prev_ma[1] /\ price[1] >= ma_200[1]
         THEN Some(Draft("MA200_BULLISH_CROSS", "BULLISH", "STRONG",
                         Message("Price crossed above 200 MA (${:,.0f})", ma_200)))
         ELSE IF prev_price[1] > prev_ma[1] /\ price[1] < ma_200[1]
         THEN Some(Draft("MA200_BEARISH_CROSS", "BEARISH", "STRONG",
                         Message("Price crossed below 200 MA (${:,.0f})", ma_200)))
         ELSE None
    ELSE None

\* _check_200ma that takes a missing previous price or MA as a cross
_check_200ma_without_previous(price, ma_200, prev_price, prev_ma) ==
    IF price = None \/ ma_200 = None THEN None
    ELSE IF (prev_price = None \/ prev_ma = None \/ prev_price[1] < prev_ma[1])
            /\ price[1] > ma_200[1]
    THEN Some(Draft("MA200_BULLISH_CROSS", "BULLISH", "STRONG",
                    Message("Price crossed above 200 MA (${:,.0f})", ma_200)))
    ELSE IF (prev_price = None \/ prev_ma = None \/ prev_price[1] > prev_ma[1])
            /\ price[1] < ma_200[1]
    THEN Some(Draft("MA200_BEARISH_CROSS", "BEARISH", "STRONG",
                    Message("Price crossed below 200 MA (${:,.0f})", ma_200)))
    ELSE None

_check_200ma(price, ma_200, prev_price, prev_ma) ==
    IF price = None \/ ma_200 = None THEN None
    ELSE IF prev_price # None /\ prev_ma # None
    THEN LET was_below == prev_price[1] < prev_ma[1]
             now_above == price[1] > ma_200[1]
             was_above == prev_price[1] > prev_ma[1]
             now_below == price[1] < ma_200[1]
         IN  IF was_below /\ now_above
             THEN Some(Draft("MA200_BULLISH_CROSS", "BULLISH", "STRONG",
                             Message("Price crossed above 200 MA (${:,.0f})", ma_200)))
             ELSE IF was_above /\ now_below
             THEN Some(Draft("MA200_BEARISH_CROSS", "BEARISH", "STRONG",
                             Message("Price crossed below 200 MA (${:,.0f})", ma_200)))
             ELSE None
    ELSE None

\* _check_bollinger with "price > bb_upper" for "price >= bb_upper"
_check_bollinger_strict(price, bb_upper, bb_lower) ==
    IF price = None \/ bb_upper = None \/ bb_lower = None THEN None
    ELSE IF price[1] > bb_upper[1]
    THEN Some(Draft("BB_UPPER_TOUCH", "BEARISH", "WEAK",
                    Message("Price touched upper Bollinger Band (${:,.0f})", bb_upper)))
    ELSE IF price[1] <= bb_lower[1]
    THEN Some(Draft("BB_LOWER_TOUCH", "BULLISH", "WEAK",
                    Message("Price touched lower Bollinger Band (${:,.0f})", bb_lower)))
    ELSE None

_check_bollinger(price, bb_upper, bb_lower) ==
    IF price = None \/ bb_upper = None \/ bb_lower = None THEN None
    ELSE IF price[1] >= bb_upper[1]
    THEN Some(Draft("BB_UPPER_TOUCH", "BEARISH", "WEAK",
                    Message("Price touched upper Bollinger Band (${:,.0f})", bb_upper)))
    ELSE IF price[1] <= bb_lower[1]
    THEN Some(Draft("BB_LOWER_TOUCH", "BULLISH", "WEAK",
                    Message("Price touched lower Bollinger Band (${:,.0f})", bb_lower)))
    ELSE None

----------------------------------------------------------------------------
(* check_all_signals, lines 32-76: the drafts the four rules return for the *)
(* current and the previous dict, each tagged with the symbol, in the order *)
(* RSI, MACD, 200 MA, Bollinger.                                            *)

\* "if x_signal: x_signal['symbol'] = symbol; signals.append(x_signal)"
Append_signal(signals, draft, symbol) ==
    IF draft = None THEN signals
    ELSE Append(signals, [symbol |-> symbol] @@ draft[1])

\* the RSI argument taken from a dict: d.get("rsi_1d") or d.get("rsi")
rsi_argument(d) == Or(Get(d, "rsi_1d"), Get(d, "rsi"))

detected_signals(symbol, indicators, prev) ==
    LET rsi_signal  == _check_rsi(rsi_argument(indicators), rsi_argument(prev))
        macd_signal == _check_macd(Get(indicators, "macd_line"),
                                   Get(indicators, "macd_signal"),
                                   Get(indicators, "macd_histogram"),
                                   Get(prev, "macd_histogram"))
        ma_signal   == _check_200ma(Get(indicators, "price"), Get(indicators, "ma_200"),
                                    Get(prev, "price"), Get(prev, "ma_200"))
        bb_signal   == _check_bollinger(Get(indicators, "price"),
                                        Get(indicators, "bb_upper"),
                                        Get(indicators, "bb_lower"))
    IN  Append_signal(Append_signal(Append_signal(Append_signal(
            << >>, rsi_signal, symbol), macd_signal, symbol), ma_signal, symbol),
            bb_signal, symbol)

----------------------------------------------------------------------------
(* The detector's cache.  The cache holds dict objects; the only dict     *)
(* object that anything outside the detector can still change is the one  *)
(* the latest caller passed in.  CallerRef stands for a reference to that *)
(* object, every other entry is an object of the detector's own.          *)

CallerRef == [k \in {"<the caller's dict object>"} |-> None]

\* the items of a cached object
Deref(obj) == IF obj = CallerRef THEN caller_dict ELSE obj

\* self._last_values.get(symbol, {})
cached(symbol) ==
    IF symbol \in DOMAIN _last_values THEN Deref(_last_values[symbol]) ELSE EmptyDict

\* indicators.copy(): a new object with the items of indicators
dict_copy(indicators) == indicators

\* update_cache that merges the new items into the cached dict
update_cache_merge(cache, symbol, indicators) ==
    [s \in DOMAIN cache \cup {symbol} |->
        IF s = symbol
        THEN dict_copy(indicators) @@
             (IF s \in DOMAIN cache THEN Deref(cache[s]) ELSE EmptyDict)
        ELSE Deref(cache[s])]

\* "self._last_values[symbol] = indicators.copy()".  A new call brings a new
\* caller object: an entry that referred to the old one keeps its items.
update_cache(cache, symbol, indicators) ==
    [s \in DOMAIN cache \cup {symbol} |->
        IF s = symbol THEN dict_copy(indicators) ELSE Deref(cache[s])]

----------------------------------------------------------------------------
(* Timestamps.  The tables keep them as text and sqlite compares them as   *)
(* text.  A text 'YYYY-MM-DD?HH:MM:SS' is the tuple of its date, the code   *)
(* of the separator character and its time of day.                         *)

\* sqlite's CURRENT_TIMESTAMP at clock t: 'YYYY-MM-DD HH:MM:SS', ord(' ') = 32
sqlite_timestamp(t) == <<t \div SecondsPerDay, 32, t % SecondsPerDay>>

\* datetime.isoformat() at clock t: 'YYYY-MM-DDTHH:MM:SS', ord('T') = 84
isoformat(t) == <<t \div SecondsPerDay, 84, t % SecondsPerDay>>

\* text a < text b, character by character
TextLess(a, b) ==
    \/ a[1] < b[1]
    \/ a[1] = b[1] /\ a[2] < b[2]
    \/ a[1] = b[1] /\ a[2] = b[2] /\ a[3] < b[3]

CURRENT_TIMESTAMP == sqlite_timestamp(now)

----------------------------------------------------------------------------
(* Table trading_signals *)

\* json.dumps of a dict of optional numbers: the object's members, null for None
json_dumps(d) == {<<k, d[k]>> : k \in DOMAIN d}

\* json.loads of such a text
json_loads(text) ==
    [k \in {m[1] : m \in text} |-> (CHOOSE m \in text : m[1] = k)[2]]

\* save_signal that leaves the strength column to its default 'MEDIUM'
save_signal_default_strength(id, symbol, signal_type, direction, strength, price, indicator_values, message) ==
    [id               |-> id,
     symbol           |-> symbol,
     signal_type      |-> signal_type,
     direction        |-> direction,
     strength         |-> "MEDIUM",
     price_at_signal  |-> price,
     indicator_values |-> IF indicator_values # EmptyDict
                          THEN Some(json_dumps(indicator_values)) ELSE None,
     message          |-> message,
     received_at      |-> CURRENT_TIMESTAMP,
     acknowledged     |-> 0,
     acknowledged_at  |-> None]

\* the row INSERTed by save_signal; received_at, acknowledged and
\* acknowledged_at take their column defaults
save_signal(id, symbol, signal_type, direction, strength, price, indicator_values, message) ==
    [id               |-> id,
     symbol           |-> symbol,
     signal_type      |-> signal_type,
     direction        |-> direction,
     strength         |-> strength,
     price_at_signal  |-> price,
     indicator_values |-> IF indicator_values # EmptyDict
                          THEN Some(json_dumps(indicator_values)) ELSE None,
     message          |-> message,
     received_at      |-> CURRENT_TIMESTAMP,
     acknowledged     |-> 0,
     acknowledged_at  |-> None]

\* the indicator_values column as get_signals hands it out
row_indicator_values(row) ==
    IF row.indicator_values # None
    THEN Some(json_loads(row.indicator_values[1])) ELSE None

\* "for signal in signals: self.db.save_signal(...)" for the first n signals
saved_rows(signals, n, indicators, first_id) ==
    [i \in 1..n |->
        save_signal(first_id + i - 1, signals[i].symbol, signals[i].signal_type,
                    signals[i].direction, signals[i].strength,
                    Get(indicators, "price"), indicators, signals[i].message)]

----------------------------------------------------------------------------
(* Tables trading_indicators and latest_indicators.  A statement or a      *)
(* method run on the tables t gives [tables, error]: the tables after it   *)
(* and "none" or the name of the exception it raises.                      *)

Tables ==
    [trading_indicators |-> trading_indicators,
     indicator_seq      |-> indicator_seq,
     latest_indicators  |-> latest_indicators]

\* _get_connection that commits in its finally clause, whatever the body did
_get_connection_commit_always(before, body) == body.tables

\* "with self._get_connection() as conn": commit when the body ends without
\* an exception; otherwise the connection is closed with its transaction
\* open, which rolls it back
_get_connection(before, body) ==
    IF body.error = "none" THEN body.tables ELSE before

\* the INSERT on a table whose id is INTEGER PRIMARY KEY without
\* AUTOINCREMENT: the id is one more than the greatest id in the table
insert_indicator_rowid(t, symbol, indicator_name, value, value2, value3, timeframe, source, fault) ==
    IF fault THEN [tables |-> t, error |-> "OperationalError"]
    ELSE IF value = None THEN [tables |-> t, error |-> "IntegrityError"]
    ELSE LET ids == {t.trading_indicators[i].id : i \in 1..Len(t.trading_indicators)}
             greatest == IF ids = {} THEN 0 ELSE CHOOSE a \in ids : \A b \in ids : b <= a
         IN  [tables |->
                  [t EXCEPT !.trading_indicators =
                                Append(@, [id             |-> greatest + 1,
                                           symbol         |-> symbol,
                                           indicator_name |-> indicator_name,
                                           value          |-> value,
                                           value2         |-> value2,
                                           value3         |-> value3,
                                           timeframe      |-> timeframe,
                                           source         |-> source,
                                           received_at    |-> CURRENT_TIMESTAMP]),
                            !.indicator_seq = @ + 1],
              error |-> "none"]

\* INSERT INTO trading_indicators; "value REAL NOT NULL"; fault: the
\* statement meets a storage error
insert_indicator(t, symbol, indicator_name, value, value2, value3, timeframe, source, fault) ==
    IF fault THEN [tables |-> t, error |-> "OperationalError"]
    ELSE IF value = None THEN [tables |-> t, error |-> "IntegrityError"]
    ELSE [tables |->
              [t EXCEPT !.trading_indicators =
                            Append(@, [id             |-> t.indicator_seq + 1,
                                       symbol         |-> symbol,
                                       indicator_name |-> indicator_name,
                                       value          |-> value,
                                       value2         |-> value2,
                                       value3         |-> value3,
                                       timeframe      |-> timeframe,
                                       source         |-> source,
                                       received_at    |-> CURRENT_TIMESTAMP]),
                        !.indicator_seq = @ + 1],
          error |-> "none"]

\* the row of latest_indicators written by save_indicator
latest_row(value, value2, value3, timeframe) ==
    [value |-> value, value2 |-> value2, value3 |-> value3,
     timeframe |-> timeframe, updated_at |-> CURRENT_TIMESTAMP]

\* replace_latest as INSERT OR IGNORE: a row that exists is kept
replace_latest_or_ignore(t, symbol, indicator_name, value, value2, value3, timeframe, fault) ==
    IF fault THEN [tables |-> t, error |-> "OperationalError"]
    ELSE IF value = None THEN [tables |-> t, error |-> "IntegrityError"]
    ELSE [tables |->
              [t EXCEPT !.latest_indicators =
                  [k \in DOMAIN @ \cup {<<symbol, indicator_name>>} |->
                      IF k \in DOMAIN @ THEN @[k]
                      ELSE latest_row(value, value2, value3, timeframe)]],
          error |-> "none"]

\* INSERT OR REPLACE INTO latest_indicators, primary key (symbol,
\* indicator_name); "value REAL NOT NULL"
replace_latest(t, symbol, indicator_name, value, value2, value3, timeframe, fault) ==
    IF fault THEN [tables |-> t, error |-> "OperationalError"]
    ELSE IF value = None THEN [tables |-> t, error |-> "IntegrityError"]
    ELSE [tables |->
              [t EXCEPT !.latest_indicators =
                  [k \in DOMAIN @ \cup {<<symbol, indicator_name>>} |->
                      IF k = <<symbol, indicator_name>>
                      THEN latest_row(value, value2, value3, timeframe)
                      ELSE @[k]]],
          error |-> "none"]

\* save_indicator on the tables t.  fault: 0 for none, 1 or 2 for a storage
\* error in its first or second statement.
save_indicator(t, symbol, indicator_name, value, timeframe, value2, value3, source, fault) ==
    LET inserted == insert_indicator(t, symbol, indicator_name, value, value2,
                                     value3, timeframe, source, fault = 1)
        body     == IF inserted.error # "none" THEN inserted
                    ELSE replace_latest(inserted.tables, symbol, indicator_name,
                                        value, value2, value3, timeframe, fault = 2)
    IN  [tables |-> _get_connection(t, body),
         error  |-> body.error,
         row_id |-> IF body.error = "none" THEN Some(inserted.tables.indicator_seq)
                    ELSE None]

\* the greatest of a non-empty set of timestamp texts
MaxText(texts) == CHOOSE a \in texts : \A b \in texts : ~TextLess(a, b)

\* the loop of get_latest_indicators over the updated_at texts of the rows it
\* fetched, in whatever order they come: last_updated starts as None and
\* takes a row's text when it is None or the text is greater
RECURSIVE track_last_updated(_)
track_last_updated(texts) ==
    IF texts = {} THEN None
    ELSE LET text == CHOOSE a \in texts : TRUE
             last_updated == track_last_updated(texts \ {text})
         IN  IF last_updated = None \/ TextLess(last_updated[1], text)
             THEN Some(text) ELSE last_updated

\* get_latest_indicators(symbol) on the tables t
get_latest_indicators(t, symbol) ==
    LET names == {k[2] : k \in {k \in DOMAIN t.latest_indicators : k[1] = symbol}}
    IN  [symbol     |-> symbol,
         indicators |->
             [name \in names |->
                 [value     |-> t.latest_indicators[<<symbol, name>>].value,
                  value2    |-> t.latest_indicators[<<symbol, name>>].value2,
                  value3    |-> t.latest_indicators[<<symbol, name>>].value3,
                  timeframe |-> t.latest_indicators[<<symbol, name>>].timeframe]],
         last_updated |->
             track_last_updated({t.latest_indicators[<<symbol, name>>].updated_at :
                                     name \in names})]

----------------------------------------------------------------------------
(* cleanup_old_data, acknowledge_signal and the two queries *)

\* DELETE FROM trading_indicators WHERE received_at < cutoff
delete_old_indicators(rows, cutoff) ==
    SelectSeq(rows, LAMBDA row : ~TextLess(row.received_at, cutoff))

\* delete_old_signals without "AND acknowledged = 1"
delete_old_signals_any(rows, cutoff) ==
    SelectSeq(rows, LAMBDA row : ~TextLess(row.received_at, cutoff))

\* DELETE FROM trading_signals WHERE received_at < cutoff AND acknowledged = 1
delete_old_signals(rows, cutoff) ==
    SelectSeq(rows, LAMBDA row :
                  ~(TextLess(row.received_at, cutoff) /\ row.acknowledged = 1))

\* the two DELETEs of cleanup_old_data on the tables t = [indicators, signals];
\* fault: 0 for none, 1 or 2 for a storage error in the first or second DELETE
cleanup_body(t, cutoff, fault) ==
    IF fault = 1 THEN [tables |-> t, error |-> "OperationalError"]
    ELSE LET first == [t EXCEPT !.indicators = delete_old_indicators(@, cutoff)]
         IN  IF fault = 2 THEN [tables |-> first, error |-> "OperationalError"]
             ELSE [tables |-> [first EXCEPT !.signals = delete_old_signals(@, cutoff)],
                   error  |-> "none"]

\* acknowledge_rows with "AND acknowledged = 0" added to the WHERE clause
acknowledge_rows_once(rows, signal_id) ==
    [i \in 1..Len(rows) |->
        IF rows[i].id = signal_id /\ rows[i].acknowledged = 0
        THEN [rows[i] EXCEPT !.acknowledged = 1,
                             !.acknowledged_at = Some(CURRENT_TIMESTAMP)]
        ELSE rows[i]]

\* acknowledge_rows that toggles the flag: "SET acknowledged = 1 - acknowledged"
acknowledge_rows_toggle(rows, signal_id) ==
    [i \in 1..Len(rows) |->
        IF rows[i].id = signal_id
        THEN [rows[i] EXCEPT !.acknowledged = 1 - @,
                             !.acknowledged_at = Some(CURRENT_TIMESTAMP)]
        ELSE rows[i]]

\* acknowledge_rows that sets received_at as well
acknowledge_rows_restamp(rows, signal_id) ==
    [i \in 1..Len(rows) |->
        IF rows[i].id = signal_id
        THEN [rows[i] EXCEPT !.acknowledged = 1,
                             !.acknowledged_at = Some(CURRENT_TIMESTAMP),
                             !.received_at = CURRENT_TIMESTAMP]
        ELSE rows[i]]

\* UPDATE trading_signals SET acknowledged = 1, acknowledged_at =
\* CURRENT_TIMESTAMP WHERE id = signal_id
acknowledge_rows(rows, signal_id) ==
    [i \in 1..Len(rows) |->
        IF rows[i].id = signal_id
        THEN [rows[i] EXCEPT !.acknowledged = 1,
                             !.acknowledged_at = Some(CURRENT_TIMESTAMP)]
        ELSE rows[i]]

\* a rowcount that counts only the rows whose flag the UPDATE changed
acknowledge_rowcount_changed(rows, signal_id) ==
    Cardinality({i \in 1..Len(rows) :
                    rows[i].id = signal_id /\ rows[i].acknowledged = 0})

\* cursor.rowcount of that UPDATE: the rows its WHERE clause selects
acknowledge_rowcount(rows, signal_id) ==
    Cardinality({i \in 1..Len(rows) : rows[i].id = signal_id})

\* row a sorts before row b under ORDER BY received_at DESC or ASC
SortsBefore(a, b, descending) ==
    IF descending THEN TextLess(b.received_at, a.received_at)
    ELSE TextLess(a.received_at, b.received_at)

\* the sequences that hold each row of the set once, no row before a row
\* that sorts before it, cut after the first limit rows: what
\* "ORDER BY received_at ... LIMIT limit" may return, rows with equal
\* received_at coming in whatever order sqlite visits them
RECURSIVE OrderedLimit(_, _, _)
OrderedLimit(rows, descending, limit) ==
    IF rows = {} \/ limit = 0 THEN {<< >>}
    ELSE UNION { {<<first>> \o rest :
                     rest \in OrderedLimit(rows \ {first}, descending, limit - 1)} :
                 first \in {r \in rows :
                               \A other \in rows : ~SortsBefore(other, r, descending)} }

\* the possible results of get_signals(symbol, limit, acknowledged) on the
\* table rows, before json.loads of indicator_values; symbol and
\* acknowledged are None or Some(v)
get_signals(rows, symbol, limit, acknowledged) ==
    LET matching ==
            {rows[i] : i \in {j \in 1..Len(rows) :
                /\ (symbol # None /\ symbol[1] # "") => rows[j].symbol = symbol[1]
                /\ acknowledged # None =>
                       rows[j].acknowledged = (IF acknowledged[1] THEN 1 ELSE 0)}}
    IN  OrderedLimit(matching, TRUE, limit)

\* the possible results of get_indicator_history(symbol, indicator_name,
\* hours) on the table rows
get_indicator_history(rows, symbol, indicator_name, hours) ==
    LET since    == now - hours * SecondsPerHour
        selected == {rows[i] : i \in {j \in 1..Len(rows) :
                        /\ rows[j].symbol = symbol
                        /\ rows[j].indicator_name = indicator_name
                        /\ TextLess(isoformat(since), rows[j].received_at)}}
        ordered  == OrderedLimit(selected, FALSE, Cardinality(selected))
    IN  { [i \in 1..Len(result) |->
              [value |-> result[i].value, value2 |-> result[i].value2,
               value3 |-> result[i].value3, received_at |-> result[i].received_at]] :
          result \in ordered }

----------------------------------------------------------------------------
(* The webhook handler of trading_data_server.py *)

\* the default of os.getenv("WEBHOOK_SECRET", ...), which switches the test off
PLACEHOLDER_SECRET == "your-secret-here"

\* the secret configured in the deployment of Init
CONFIGURED_SECRET == "s3cret"

\* the strings of the inputs that have letters, as <<lower case, upper case>>
CasePairs ==
    {<<"btcusd", "BTCUSD">>, <<"ethusd", "ETHUSD">>, <<"1d", "1D">>, <<"4h", "4H">>,
     <<"rsi", "RSI">>, <<"macd", "MACD">>, <<"bb", "BB">>,
     <<"bollinger", "BOLLINGER">>, <<"price", "PRICE">>, <<"ma200", "MA200">>,
     <<"macd_histogram", "MACD_HISTOGRAM">>, <<"bb_lower", "BB_LOWER">>}

\* str.upper()
upper(str) ==
    IF \E p \in CasePairs : p[1] = str
    THEN (CHOOSE p \in CasePairs : p[1] = str)[2] ELSE str

\* str.lower()
lower(str) ==
    IF \E p \in CasePairs : p[2] = str
    THEN (CHOOSE p \in CasePairs : p[2] = str)[1] ELSE str

\* indicator_map with "RSI": "rsi", the timeframe left out of the key
indicator_map_rsi_generic(timeframe) ==
    [k \in {"RSI", "MACD_LINE", "MACD_SIGNAL", "MACD_HISTOGRAM", "MACD", "MA200",
            "200MA", "ATR", "VOLUME", "BB_UPPER", "BB_LOWER", "PRICE"} |->
        CASE k = "RSI"            -> "rsi"
          [] k = "MACD_LINE"      -> "macd_line"
          [] k = "MACD_SIGNAL"    -> "macd_signal"
          [] k = "MACD_HISTOGRAM" -> "macd_histogram"
          [] k = "MACD"           -> "macd_line"
          [] k = "MA200"          -> "ma_200"
          [] k = "200MA"          -> "ma_200"
          [] k = "ATR"            -> "atr_14"
          [] k = "VOLUME"         -> "volume_ratio"
          [] k = "BB_UPPER"       -> "bb_upper"
          [] k = "BB_LOWER"       -> "bb_lower"
          [] k = "PRICE"          -> "price"]

\* the dict indicator_map of the handler
indicator_map(timeframe) ==
    [k \in {"RSI", "MACD_LINE", "MACD_SIGNAL", "MACD_HISTOGRAM", "MACD", "MA200",
            "200MA", "ATR", "VOLUME", "BB_UPPER", "BB_LOWER", "PRICE"} |->
        CASE k = "RSI"            -> "rsi_" \o lower(timeframe)
          [] k = "MACD_LINE"      -> "macd_line"
          [] k = "MACD_SIGNAL"    -> "macd_signal"
          [] k = "MACD_HISTOGRAM" -> "macd_histogram"
          [] k = "MACD"           -> "macd_line"
          [] k = "MA200"          -> "ma_200"
          [] k = "200MA"          -> "ma_200"
          [] k = "ATR"            -> "atr_14"
          [] k = "VOLUME"         -> "volume_ratio"
          [] k = "BB_UPPER"       -> "bb_upper"
          [] k = "BB_LOWER"       -> "bb_lower"
          [] k = "PRICE"          -> "price"]

\* indicator_map.get(webhook.indicator.upper(), webhook.indicator.lower())
indicator_key(webhook) ==
    IF upper(webhook.indicator) \in DOMAIN indicator_map(webhook.timeframe)
    THEN indicator_map(webhook.timeframe)[upper(webhook.indicator)]
    ELSE lower(webhook.indicator)

\* the arguments of one save_indicator call of the handler
SaveArgs(indicator_name, value, value2, value3) ==
    [indicator_name |-> indicator_name, value |-> value,
     value2 |-> value2, value3 |-> value3]

\* the save_indicator calls the handler makes for a webhook, in order
webhook_saves(webhook) ==
    <<SaveArgs(indicator_key(webhook), webhook.value, webhook.value2, webhook.value3)>>
    \o (IF upper(webhook.indicator) = "MACD" /\ webhook.value2 # None
        THEN <<SaveArgs("macd_signal", webhook.value2, None, None)>>
             \o (IF webhook.value3 # None
                 THEN <<SaveArgs("macd_histogram", webhook.value3, None, None)>>
                 ELSE << >>)
        ELSE << >>)
    \o (IF upper(webhook.indicator) \in {"BB", "BOLLINGER"}
        THEN (IF webhook.value # None
              THEN <<SaveArgs("bb_upper", webhook.value, None, None)>> ELSE << >>)
             \o (IF webhook.value2 # None
                 THEN <<SaveArgs("bb_lower", webhook.value2, None, None)>> ELSE << >>)
        ELSE << >>)

\* these calls made one after the other on the tables t, each in its own
\* transaction, up to the first that raises
RECURSIVE save_all(_, _, _, _)
save_all(t, saves, symbol, timeframe) ==
    IF saves = << >> THEN [tables |-> t, error |-> "none"]
    ELSE LET first == save_indicator(t, symbol, saves[1].indicator_name,
                                     saves[1].value, timeframe, saves[1].value2,
                                     saves[1].value3, "tradingview", 0)
         IN  IF first.error # "none" THEN [tables |-> first.tables, error |-> first.error]
             ELSE save_all(first.tables, Tail(saves), symbol, timeframe)

\* the dict built from the oldest history row of every key of the symbol
oldest_values(t, symbol) ==
    LET latest == get_latest_indicators(t, symbol)
        rows   == t.trading_indicators
        First(name) == CHOOSE i \in 1..Len(rows) :
                           /\ rows[i].symbol = symbol /\ rows[i].indicator_name = name
                           /\ \A j \in 1..(i - 1) :
                                  ~(rows[j].symbol = symbol /\ rows[j].indicator_name = name)
    IN  [name \in DOMAIN latest.indicators |-> rows[First(name)].value]

\* the dict check_for_signals builds from get_latest_indicators
latest_values(t, symbol) ==
    LET latest == get_latest_indicators(t, symbol)
    IN  [name \in DOMAIN latest.indicators |-> latest.indicators[name].value]

\* get_summary with "data_freshness": indicators.get("last_updated") or
\* datetime.utcnow().isoformat()
get_summary_fresh_now(t, symbol) ==
    LET latest == get_latest_indicators(t, symbol)
    IN  [symbol |-> symbol,
         data_freshness |-> IF latest.last_updated = None THEN Some(isoformat(now))
                            ELSE latest.last_updated]

\* the fields of db.get_summary(symbol) that come from latest_indicators
get_summary(t, symbol) ==
    LET ind      == get_latest_indicators(t, symbol).indicators
        val(name) == IF name \in DOMAIN ind THEN ind[name].value ELSE None
        above_ma == val("ma_200")
        price    == val("price")
    IN  [symbol |-> symbol,
         price  |-> price,
         trend  |-> IF Truthy(price) /\ Truthy(above_ma)
                    THEN (IF price[1] > above_ma[1] THEN "BULLISH" ELSE "BEARISH")
                    ELSE "NEUTRAL",
         indicators |->
             [rsi_daily    |-> val("rsi_1d"),
              rsi_4h       |-> val("rsi_4h"),
              macd         |-> [line      |-> val("macd_line"),
                                signal    |-> val("macd_signal"),
                                histogram |-> val("macd_histogram")],
              ma_200       |-> above_ma,
              above_200ma  |-> IF Truthy(price) /\ Truthy(above_ma)
                               THEN Some(price[1] > above_ma[1]) ELSE None,
              atr          |-> val("atr_14"),
              volume_ratio |-> val("volume_ratio"),
              bollinger    |-> [upper |-> val("bb_upper"),
                                lower |-> val("bb_lower")]],
         data_freshness |-> get_latest_indicators(t, symbol).last_updated]

----------------------------------------------------------------------------
(* Tables exchange_positions and exchange_balances, the summary *)

\* upsert_position: INSERT INTO exchange_positions ... ON CONFLICT(exchange,
\* symbol, side) DO UPDATE SET quantity, current_price, notional_value,
\* unrealized_pnl, updated_at.  The columns that no query of the server
\* computes with (id, entry_price, leverage, margin_mode, stop_loss,
\* take_profit, opened_at) are left out of the rows.
upsert_position(rows, exchange, symbol, side, quantity, current_price, unrealized_pnl) ==
    LET notional == IF Truthy(current_price) THEN Some(quantity * current_price[1])
                    ELSE None
        row == [exchange       |-> exchange,
                symbol         |-> symbol,
                side           |-> side,
                quantity       |-> quantity,
                current_price  |-> current_price,
                notional_value |-> notional,
                unrealized_pnl |-> unrealized_pnl,
                updated_at     |-> CURRENT_TIMESTAMP]
        same(r) == r.exchange = exchange /\ r.symbol = symbol /\ r.side = side
    IN  IF \E i \in 1..Len(rows) : same(rows[i])
        THEN [i \in 1..Len(rows) |-> IF same(rows[i]) THEN row ELSE rows[i]]
        ELSE Append(rows, row)

\* DELETE FROM exchange_positions WHERE exchange = ?
clear_positions(rows, exchange) == SelectSeq(rows, LAMBDA r : r.exchange # exchange)

\* the orders in which "ORDER BY updated_at DESC" may return the rows of a set
RECURSIVE by_updated_at_desc(_)
by_updated_at_desc(rows) ==
    IF rows = {} THEN {<< >>}
    ELSE UNION { {<<first>> \o rest : rest \in by_updated_at_desc(rows \ {first})} :
                 first \in {r \in rows :
                               \A other \in rows :
                                   ~TextLess(r.updated_at, other.updated_at)} }

\* the possible results of get_positions(): WHERE quantity != 0 ORDER BY
\* updated_at DESC, over all exchanges and symbols
get_positions(rows) ==
    by_updated_at_desc({rows[i] : i \in {j \in 1..Len(rows) : rows[j].quantity # 0}})

\* upsert_balance: INSERT INTO exchange_balances ... ON CONFLICT(exchange,
\* asset) DO UPDATE SET free, locked, total, usd_value, updated_at
upsert_balance(rows, exchange, asset, free, locked, usd_value) ==
    LET row == [exchange   |-> exchange,
                asset      |-> asset,
                free       |-> free,
                locked     |-> locked,
                total      |-> free + locked,
                usd_value  |-> usd_value,
                updated_at |-> CURRENT_TIMESTAMP]
        same(r) == r.exchange = exchange /\ r.asset = asset
    IN  IF \E i \in 1..Len(rows) : same(rows[i])
        THEN [i \in 1..Len(rows) |-> IF same(rows[i]) THEN row ELSE rows[i]]
        ELSE Append(rows, row)

\* the orders in which "ORDER BY usd_value DESC NULLS LAST" may return the
\* rows of a set
RECURSIVE by_usd_value_desc(_)
by_usd_value_desc(rows) ==
    IF rows = {} THEN {<< >>}
    ELSE UNION { {<<first>> \o rest : rest \in by_usd_value_desc(rows \ {first})} :
                 first \in {r \in rows :
                               \A other \in rows :
                                   \/ other.usd_value = None
                                   \/ /\ r.usd_value # None
                                      /\ other.usd_value[1] <= r.usd_value[1]} }

\* the possible results of get_balances(): WHERE total > 0 ORDER BY usd_value
\* DESC NULLS LAST
get_balances(rows) ==
    by_usd_value_desc({rows[i] : i \in {j \in 1..Len(rows) : rows[j].total > 0}})

\* sum(row.get(column, 0) or 0 for row in rows)
RECURSIVE sum_or_zero(_, _)
sum_or_zero(rows, column) ==
    IF rows = << >> THEN 0
    ELSE Or(rows[1][column], Some(0))[1] + sum_or_zero(Tail(rows), column)

\* ExchangeManager.get_total_value() on results of get_balances and
\* get_positions (its timestamp is left out)
get_total_value(balances, positions) ==
    [total_balance_value  |-> sum_or_zero(balances, "usd_value"),
     total_position_value |-> sum_or_zero(positions, "notional_value"),
     total_unrealized_pnl |-> sum_or_zero(positions, "unrealized_pnl"),
     total_value          |-> sum_or_zero(balances, "usd_value")
                              + sum_or_zero(positions, "notional_value")]

\* signals[:5] of get_summary
first_five(signals) == SubSeq(signals, 1, IF Len(signals) < 5 THEN Len(signals) ELSE 5)

\* db.get_summary(symbol) reading ind["price"]["value"] where the code reads
\* ind.get("price", {}).get("value"): a KeyError when the symbol has no price
summaries_indexing(t, signal_rows, position_rows, symbol) ==
    IF "price" \notin DOMAIN get_latest_indicators(t, symbol).indicators
    THEN {[error |-> "KeyError"]}
    ELSE { get_summary(t, symbol) @@
           [active_signals       |-> first_five(signals),
            positions            |-> positions,
            total_unrealized_pnl |-> sum_or_zero(positions, "unrealized_pnl")] :
             signals \in get_signals(signal_rows, Some(symbol), 10, None),
             positions \in get_positions(position_rows) }

\* the possible results of db.get_summary(symbol) on the tables t, the signal
\* rows and the position rows: the fields read from latest_indicators, and
\* "active_signals": signals[:5] of get_signals(symbol=symbol, limit=10),
\* "positions": get_positions(), "total_unrealized_pnl": the sum over them
summaries(t, signal_rows, position_rows, symbol) ==
    { get_summary(t, symbol) @@
      [active_signals       |-> first_five(signals),
       positions            |-> positions,
       total_unrealized_pnl |-> sum_or_zero(positions, "unrealized_pnl")] :
        signals \in get_signals(signal_rows, Some(symbol), 10, None),
        positions \in get_positions(position_rows) }

----------------------------------------------------------------------------
(* Actions *)

NoCall == [op |-> "none"]

Init ==
    /\ _last_values = EmptyDict
    /\ trading_signals = << >>
    /\ signal_seq = 0
    /\ call = NoCall
    /\ caller_dict = EmptyDict
    /\ calls = 0
    /\ trading_indicators = << >>
    /\ indicator_seq = 0
    /\ latest_indicators = EmptyDict
    /\ now = 0
    /\ background = {}
    /\ response = NoCall
    /\ ingested = << >>
    /\ WEBHOOK_SECRET = CONFIGURED_SECRET
    /\ exchange_positions = << >>
    /\ exchange_balances = << >>

\* SignalDetector.check_all_signals(symbol, indicators).  fail_at = 0: every
\* save_signal succeeds and the call returns the signals.  fail_at = k > 0: the
\* k-th save_signal raises (storage I/O error); the rows before it are
\* committed, each by its own connection, and the exception leaves the call.
check_all_signals(symbol, indicators, fail_at) ==
    LET prev    == cached(symbol)
        signals == detected_signals(symbol, indicators, prev)
        n       == IF fail_at = 0 THEN Len(signals) ELSE fail_at - 1
    IN  /\ fail_at \in 0..Len(signals)
        /\ _last_values' = update_cache(_last_values, symbol, indicators)
        /\ trading_signals' =
               trading_signals \o saved_rows(signals, n, indicators, signal_seq + 1)
        /\ signal_seq' = signal_seq + n
        /\ call' = [op         |-> "check_all_signals",
                    symbol     |-> symbol,
                    indicators |-> indicators,
                    prev       |-> prev,
                    outcome    |-> IF fail_at = 0 THEN "returned" ELSE "raised",
                    signals    |-> IF fail_at = 0 THEN signals ELSE << >>,
                    rows_before |-> Len(trading_signals),
                    cache_before |-> [s \in DOMAIN _last_values |-> cached(s)]]
        /\ caller_dict' = indicators
        /\ calls' = calls + 1

\* After the call the caller changes the dict it passed in (indicators.clear()).
CallerClearsDict ==
    /\ call.op = "check_all_signals"
    /\ caller_dict # EmptyDict
    /\ caller_dict' = EmptyDict
    /\ UNCHANGED <<_last_values, trading_signals, signal_seq, call, calls>>
    /\ UNCHANGED store_vars

\* a call db.save_indicator(symbol, indicator_name, value, timeframe, value2,
\* value3) on the database
save_indicator_call(symbol, indicator_name, value, timeframe, value2, value3, fault) ==
    LET result == save_indicator(Tables, symbol, indicator_name, value, timeframe,
                                 value2, value3, "tradingview", fault)
    IN  /\ trading_indicators' = result.tables.trading_indicators
        /\ indicator_seq' = result.tables.indicator_seq
        /\ latest_indicators' = result.tables.latest_indicators
        /\ response' = [op             |-> "save_indicator",
                        symbol         |-> symbol,
                        indicator_name |-> indicator_name,
                        value          |-> value,
                        value2         |-> value2,
                        value3         |-> value3,
                        timeframe      |-> timeframe,
                        fault          |-> fault,
                        error          |-> result.error,
                        row_id         |-> result.row_id,
                        before         |-> Tables]
        /\ UNCHANGED <<now, background, ingested>>
        /\ UNCHANGED environment_vars
        /\ UNCHANGED detector_vars

\* db.cleanup_old_data(days): both DELETEs in one transaction.  fault: 0 for
\* none, 1 or 2 for a storage error in the first or second DELETE.
cleanup_old_data(days, fault) ==
    LET cutoff  == isoformat(now - days * SecondsPerDay)
        before  == [indicators |-> trading_indicators, signals |-> trading_signals]
        body    == cleanup_body(before, cutoff, fault)
        after   == _get_connection(before, body)
    IN  /\ trading_indicators' = after.indicators
        /\ trading_signals' = after.signals
        /\ response' = [op       |-> "cleanup_old_data",
                        days     |-> days,
                        at       |-> now,
                        fault    |-> fault,
                        error    |-> body.error,
                        rowcount |-> IF body.error = "none"
                                     THEN Some(Len(trading_signals) - Len(after.signals))
                                     ELSE None,
                        before   |-> before]
        /\ UNCHANGED <<indicator_seq, latest_indicators, now, background, ingested>>
        /\ UNCHANGED environment_vars
        /\ UNCHANGED <<_last_values, signal_seq, call, caller_dict, calls>>

\* POST /api/signals/{signal_id}/acknowledge: db.acknowledge_signal(signal_id),
\* 404 when it returns False
acknowledge_signal(signal_id) ==
    LET success == acknowledge_rowcount(trading_signals, signal_id) > 0
    IN  /\ trading_signals' = acknowledge_rows(trading_signals, signal_id)
        /\ response' = [op        |-> "acknowledge_signal",
                        signal_id |-> signal_id,
                        at        |-> now,
                        success   |-> success,
                        status    |-> IF success THEN 200 ELSE 404,
                        before    |-> trading_signals]
        /\ UNCHANGED <<trading_indicators, indicator_seq, latest_indicators, now,
                       background, ingested>>
        /\ UNCHANGED environment_vars
        /\ UNCHANGED <<_last_values, signal_seq, call, caller_dict, calls>>

\* a second passes
Tick ==
    /\ now < MaxNow
    /\ now' = now + 1
    /\ UNCHANGED <<trading_indicators, indicator_seq, latest_indicators,
                   background, response, ingested>>
    /\ UNCHANGED environment_vars
    /\ UNCHANGED detector_vars

\* the test with a secret that is compared only when the request carries one
invalid_webhook_secret_when_sent(configured, secret) ==
    /\ configured # PLACEHOLDER_SECRET
    /\ secret # None
    /\ secret # Some(configured)

\* "if WEBHOOK_SECRET != "your-secret-here" and webhook.secret !=
\* WEBHOOK_SECRET": the request is answered 401 "Invalid webhook secret".
\* secret is None for a body without the field.
invalid_webhook_secret(configured, secret) ==
    /\ configured # PLACEHOLDER_SECRET
    /\ secret # Some(configured)

\* POST /webhook/tradingview up to the moment its response leaves: 401 on a
\* wrong secret, 500 when a save_indicator raises, else 200 with the task
\* check_for_signals(symbol) added to the background tasks of the response.
receive_tradingview_webhook(webhook) ==
    LET symbol == upper(webhook.symbol)
        saved  == save_all(Tables, webhook_saves(webhook), symbol, webhook.timeframe)
        status == IF invalid_webhook_secret(WEBHOOK_SECRET, webhook.secret)
                  THEN 401
                  ELSE IF saved.error # "none" THEN 500 ELSE 200
        after  == IF status = 401 THEN Tables ELSE saved.tables
        task   == [id |-> Len(ingested) + 1, symbol |-> symbol]
    IN  /\ trading_indicators' = after.trading_indicators
        /\ indicator_seq' = after.indicator_seq
        /\ latest_indicators' = after.latest_indicators
        /\ background' = IF status = 200 THEN background \cup {task} ELSE background
        /\ ingested' = IF status = 200
                       THEN Append(ingested, [symbol   |-> symbol,
                                              webhook  |-> webhook,
                                              snapshot |-> latest_values(after, symbol)])
                       ELSE ingested
        /\ response' = [op        |-> "webhook",
                        webhook   |-> webhook,
                        status    |-> status,
                        symbol    |-> symbol,
                        indicator |-> indicator_key(webhook),
                        value     |-> webhook.value,
                        timestamp |-> isoformat(now),
                        task      |-> IF status = 200 THEN Some(task.id) ELSE None,
                        before    |-> Tables]
        /\ UNCHANGED now
        /\ UNCHANGED environment_vars
        /\ UNCHANGED detector_vars

\* the background task check_for_signals(symbol), run after the response of
\* its request was sent.  An exception of check_all_signals ends in the
\* handler's "except Exception", which prints it.
check_for_signals(task, fail_at) ==
    /\ task \in background
    /\ check_all_signals(task.symbol, latest_values(Tables, task.symbol), fail_at)
    /\ background' = background \ {task}
    /\ UNCHANGED <<trading_indicators, indicator_seq, latest_indicators, now,
                   response, ingested>>
    /\ UNCHANGED environment_vars

\* a call db.upsert_position(exchange, symbol, side, quantity, ...) of a sync
upsert_position_call(exchange, symbol, side, quantity, current_price, unrealized_pnl) ==
    /\ exchange_positions' = upsert_position(exchange_positions, exchange, symbol, side,
                                             quantity, current_price, unrealized_pnl)
    /\ response' = [op |-> "upsert_position", exchange |-> exchange,
                    symbol |-> symbol, side |-> side, at |-> now]
    /\ UNCHANGED <<trading_indicators, indicator_seq, latest_indicators, now,
                   background, ingested, WEBHOOK_SECRET, exchange_balances>>
    /\ UNCHANGED detector_vars

\* a call db.clear_positions(exchange) of a sync
clear_positions_call(exchange) ==
    /\ exchange_positions' = clear_positions(exchange_positions, exchange)
    /\ response' = [op |-> "clear_positions", exchange |-> exchange, at |-> now]
    /\ UNCHANGED <<trading_indicators, indicator_seq, latest_indicators, now,
                   background, ingested, WEBHOOK_SECRET, exchange_balances>>
    /\ UNCHANGED detector_vars

\* a call db.upsert_balance(exchange, asset, free, locked, usd_value) of a sync
upsert_balance_call(exchange, asset, free, locked, usd_value) ==
    /\ exchange_balances' = upsert_balance(exchange_balances, exchange, asset, free,
                                           locked, usd_value)
    /\ response' = [op |-> "upsert_balance", exchange |-> exchange,
                    asset |-> asset, at |-> now]
    /\ UNCHANGED <<trading_indicators, indicator_seq, latest_indicators, now,
                   background, ingested, WEBHOOK_SECRET, exchange_positions>>
    /\ UNCHANGED detector_vars

\* a GET endpoint answers with the status and the body and executes no
\* statement other than SELECT
answer(op, symbol, status, body) ==
    /\ response' = [op |-> op, symbol |-> symbol, status |-> status, body |-> body]
    /\ UNCHANGED <<trading_indicators, indicator_seq, latest_indicators, now,
                   background, ingested>>
    /\ UNCHANGED environment_vars
    /\ UNCHANGED detector_vars

\* GET /api/indicators/{symbol}
api_get_indicators(symbol) ==
    LET latest == get_latest_indicators(Tables, upper(symbol))
    IN  answer("get_indicators", upper(symbol), 200, latest)

\* GET /api/indicators/{symbol}/{indicator}: 404 "No {indicator} data for
\* {symbol}" when the symbol has no latest row of the indicator
api_get_indicator(symbol, indicator) ==
    LET latest     == get_latest_indicators(Tables, upper(symbol))
        indicators == latest.indicators
        name       == lower(indicator)
    IN  IF name \notin DOMAIN indicators
        THEN answer("get_indicator", upper(symbol), 404,
                    [detail |-> <<"No", name, "data for", upper(symbol)>>])
        ELSE answer("get_indicator", upper(symbol), 200,
                    [symbol       |-> upper(symbol),
                     indicator    |-> name,
                     value        |-> indicators[name].value,
                     timeframe    |-> indicators[name].timeframe,
                     last_updated |-> latest.last_updated])

\* GET /api/indicators/{symbol}/{indicator}/history?hours=
api_get_indicator_history(symbol, indicator, hours) ==
    \E history \in get_indicator_history(trading_indicators, upper(symbol),
                                         lower(indicator), hours) :
        answer("get_indicator_history", upper(symbol), 200,
               [symbol |-> upper(symbol), indicator |-> lower(indicator),
                hours |-> hours, history |-> history])

\* GET /api/signals?symbol=&limit=: symbol.upper() if symbol else None
api_get_signals(symbol, limit) ==
    LET filter == IF symbol = None \/ symbol[1] = "" THEN None
                  ELSE Some(upper(symbol[1]))
    IN  \E signals \in get_signals(trading_signals, filter, limit, None) :
            answer("get_signals", IF filter = None THEN "" ELSE filter[1], 200,
                   [signals |-> signals])

\* GET /api/summary?symbol=: db.get_summary(symbol) with exchange_value from
\* exchange_manager.get_total_value(); an exception that leaves the handler
\* is answered 500
api_get_summary(symbol) ==
    \E summary \in summaries(Tables, trading_signals, exchange_positions, upper(symbol)),
       balances \in get_balances(exchange_balances),
       positions \in get_positions(exchange_positions) :
        IF "error" \in DOMAIN summary
        THEN answer("get_summary", upper(symbol), 500, summary)
        ELSE answer("get_summary", upper(symbol), 200,
                    summary @@ [exchange_value |-> get_total_value(balances, positions)])

----------------------------------------------------------------------------
(* Inputs *)

Symbols == {"BTCUSD", "ETHUSD"}

\* the options {Some(v) : v \in values}
Nums(values) == {Some(v) : v \in values}

\* every dict whose keys are among DOMAIN choices, the value under k drawn
\* from choices[k]
DictsOver(choices) ==
    UNION { {d \in [D -> UNION {choices[k] : k \in D}] :
                \A k \in D : d[k] \in choices[k]} : D \in SUBSET DOMAIN choices }

\* the union of two dicts with disjoint keys
Merge(d1, d2) == d1 @@ d2

\* RSI inputs: both sides of every threshold, 0, and a null daily value
RsiDicts ==
    DictsOver([rsi_1d |-> Nums({0, 15, 20, 21, 28, 30, 31, 35, 69, 70, 79, 80})
                            \cup {None},
               rsi    |-> Nums({0, 50})])

\* MACD inputs: histogram on both sides of 0; line - signal in
\* {0, -1, 500, 501, -501}
MacdDicts ==
    DictsOver([macd_line      |-> Nums({0, 501}),
               macd_signal    |-> Nums({0, 1, 501}),
               macd_histogram |-> Nums({-2, 0, 1})])

\* price below, at and above the 200 MA, the number 0 and a null for each
MaDicts ==
    DictsOver([price  |-> Nums({0, 90, 100, 110}) \cup {None},
               ma_200 |-> Nums({0, 100}) \cup {None}])

\* price below, at and above each band
BbDicts ==
    DictsOver([price    |-> Nums({0, 95, 100, 105}),
               bb_upper |-> Nums({100, 105}),
               bb_lower |-> Nums({95, 100})])

\* dicts with keys of all four rules: RSI above 30 or below 20, histogram
\* below or above 0, price below the 200 MA or above it and above the upper
\* band; and a few dicts that lack most keys
FullDicts ==
    { Merge(Merge(r, m), p) :
        r \in {[rsi_1d |-> Some(35)], [rsi_1d |-> Some(15)]},
        m \in {[macd_histogram |-> Some(-2), macd_line |-> Some(0), macd_signal |-> Some(0)],
               [macd_histogram |-> Some(1), macd_line |-> Some(501), macd_signal |-> Some(0)]},
        p \in {[price |-> Some(90), ma_200 |-> Some(100)],
               [price |-> Some(110), ma_200 |-> Some(100),
                bb_upper |-> Some(105), bb_lower |-> Some(95)]} }
    \cup {EmptyDict,
          [rsi_1d |-> Some(0), price |-> Some(0)],
          [rsi |-> Some(85), macd_histogram |-> Some(0)],
          [atr_14 |-> Some(3), price |-> None]}

\* few dicts, with keys that come and go from one dict to the next
CacheDicts ==
    {EmptyDict,
     [rsi_1d |-> Some(35), price |-> Some(90), ma_200 |-> Some(100)],
     [rsi_1d |-> Some(15)],
     [price |-> Some(110), ma_200 |-> Some(100), volume_ratio |-> None]}

\* an observation given to save_indicator
Observation(symbol, indicator_name, value, value2, value3, timeframe) ==
    [symbol |-> symbol, indicator_name |-> indicator_name, value |-> value,
     value2 |-> value2, value3 |-> value3, timeframe |-> timeframe]

\* observations of three keys, with and without value, value2 and value3,
\* and the number 0 as a value
Observations ==
    {Observation("BTCUSD", "rsi_1d", Some(32), None, None, "1D"),
     Observation("BTCUSD", "rsi_1d", Some(28), Some(7), None, "4H"),
     Observation("BTCUSD", "price", Some(0), None, Some(9), "1D"),
     Observation("BTCUSD", "price", None, None, None, "1D"),
     Observation("ETHUSD", "rsi_1d", Some(32), None, None, "1D"),
     Observation("ETHUSD", "rsi_1d", None, Some(7), None, "1D")}

\* observations of two keys of one symbol and one without value
StoreObservations ==
    {Observation("BTCUSD", "rsi_1d", Some(32), None, None, "1D"),
     Observation("BTCUSD", "price", Some(0), None, Some(9), "1D"),
     Observation("BTCUSD", "price", None, None, None, "4H")}

\* the fields each rule reads
RuleFields ==
    [rsi  |-> {"rsi_1d", "rsi"},
     macd |-> {"macd_line", "macd_signal", "macd_histogram"},
     ma   |-> {"price", "ma_200"},
     bb   |-> {"price", "bb_upper", "bb_lower"}]

\* dict d without the keys of fields
Without(d, fields) == [k \in DOMAIN d \ fields |-> d[k]]

\* dict d with None under its keys of fields
Nulled(d, fields) == [k \in DOMAIN d |-> IF k \in fields THEN None ELSE d[k]]

\* a dict before and a dict after the crossings of all four rules
BeforeCross ==
    [rsi_1d |-> Some(35), macd_line |-> Some(0), macd_signal |-> Some(0),
     macd_histogram |-> Some(-2), price |-> Some(90), ma_200 |-> Some(100),
     bb_upper |-> Some(105), bb_lower |-> Some(80)]

AfterCross ==
    [rsi_1d |-> Some(15), macd_line |-> Some(501), macd_signal |-> Some(0),
     macd_histogram |-> Some(1), price |-> Some(110), ma_200 |-> Some(100),
     bb_upper |-> Some(105), bb_lower |-> Some(80)]

\* the two dicts with every subset of the fields of one rule absent, the
\* second also with every such subset null, and the empty dict
MissingDicts ==
    UNION { UNION { {Without(BeforeCross, fields), Without(AfterCross, fields),
                     Nulled(AfterCross, fields)} :
                    fields \in SUBSET RuleFields[rule] } :
            rule \in DOMAIN RuleFields }
    \cup {EmptyDict}

\* dicts whose daily RSI crosses 30 and 20 from one to the next
LogDicts == {[rsi_1d |-> Some(35)], [rsi_1d |-> Some(15)]}

\* dicts that cross the RSI and the 200 MA thresholds from one to the next
QueryDicts ==
    {[rsi_1d |-> Some(35), price |-> Some(90), ma_200 |-> Some(100)],
     [rsi_1d |-> Some(15), price |-> Some(110), ma_200 |-> Some(100)]}

\* price and 200 MA observations: price below, at and above the MA, the
\* number 0 for each, and another symbol
SummaryObservations ==
    {Observation("BTCUSD", "price", Some(v), None, None, "1D") : v \in {0, 90, 100, 110}}
    \cup {Observation("BTCUSD", "ma_200", Some(v), None, None, "1D") : v \in {0, 100}}
    \cup {Observation("ETHUSD", "price", Some(100), None, None, "1D")}

\* the body of a webhook request (message is not read by the handler)
Webhook(symbol, indicator, value, value2, value3, timeframe, secret) ==
    [symbol |-> symbol, indicator |-> indicator, value |-> value,
     value2 |-> value2, value3 |-> value3, timeframe |-> timeframe,
     secret |-> Some(secret)]

\* single-value updates: daily RSI above 30, in (20, 30] and below 20, other
\* indicators, another symbol, an update without value and a wrong secret
RsiWebhooks ==
    {Webhook("BTCUSD", "RSI", Some(32), None, None, "1D", "s3cret"),
     Webhook("btcusd", "rsi", Some(28), None, None, "1D", "s3cret"),
     Webhook("BTCUSD", "RSI", Some(15), None, None, "1D", "s3cret"),
     Webhook("BTCUSD", "RSI", Some(25), None, None, "4H", "s3cret"),
     Webhook("BTCUSD", "PRICE", Some(100), None, None, "1D", "s3cret"),
     Webhook("BTCUSD", "PRICE", None, None, None, "1D", "s3cret"),
     Webhook("ETHUSD", "RSI", Some(28), None, None, "1D", "s3cret"),
     Webhook("BTCUSD", "RSI", Some(28), None, None, "1D", "wrong")}

\* composite updates of two symbols with every combination of value, value2
\* and value3 present or absent, and three single-value updates
CompositeWebhooks ==
    {Webhook(symbol, indicator, value, value2, value3, "1D", "s3cret") :
        symbol \in {"BTCUSD", "ethusd"},
        indicator \in {"MACD", "macd", "BB", "bollinger"},
        value \in {None, Some(600)}, value2 \in {None, Some(95)},
        value3 \in {None, Some(-2)}}
    \cup {Webhook("BTCUSD", "PRICE", Some(110), None, None, "1D", "s3cret"),
          Webhook("BTCUSD", "MACD_HISTOGRAM", Some(1), None, None, "1D", "s3cret"),
          Webhook("BTCUSD", "bb_lower", Some(100), None, None, "1D", "s3cret")}

\* the body of a webhook request without the field secret
WithoutSecret(webhook) == [webhook EXCEPT !.secret = None]

\* daily RSI updates and an update without value, each with the configured
\* secret, another secret, the placeholder as secret and no secret
SecretWebhooks ==
    LET sent == {Webhook("BTCUSD", "RSI", value, None, None, "1D", secret) :
                    value \in {Some(28), Some(15), None},
                    secret \in {CONFIGURED_SECRET, "wrong", PLACEHOLDER_SECRET}}
    IN  sent \cup {WithoutSecret(webhook) : webhook \in sent}

\* three updates of the daily RSI of one symbol, an update of the three MACD
\* values of another, an update without value and one with a wrong secret
DeliveryWebhooks ==
    {Webhook("BTCUSD", "RSI", Some(32), None, None, "1D", CONFIGURED_SECRET),
     Webhook("BTCUSD", "RSI", Some(28), None, None, "1D", CONFIGURED_SECRET),
     Webhook("BTCUSD", "RSI", Some(15), None, None, "1D", CONFIGURED_SECRET),
     Webhook("ethusd", "MACD", Some(5), Some(3), Some(2), "1D", CONFIGURED_SECRET),
     Webhook("BTCUSD", "RSI", None, None, None, "1D", CONFIGURED_SECRET),
     Webhook("BTCUSD", "RSI", Some(15), None, None, "1D", "wrong")}

\* the symbols of the query requests: one that is recorded, in both cases,
\* and one that never is
QuerySymbols == {"BTCUSD", "btcusd", "SOLUSD"}

\* indicator names of the query requests, in both cases
QueryIndicators == {"rsi_1d", "price", "PRICE"}

----------------------------------------------------------------------------
(* Specifications *)


\* a call of the detector with arguments from the given sets, while fewer
\* than max_calls calls have been made
Evaluate(dicts, symbols, max_calls) ==
    /\ calls < max_calls
    /\ \E symbol \in symbols, indicators \in dicts, fail_at \in 0..MaxFailAt :
           check_all_signals(symbol, indicators, fail_at)
    /\ UNCHANGED store_vars

\* the detector on dicts of all rules, two symbols, and its caller
Next ==
    \/ Evaluate(FullDicts, Symbols, MaxCalls)
    \/ CallerClearsDict

Spec == Init /\ [][Next]_vars

\* the detector's cache over longer runs of calls on few dicts
NextCache ==
    \/ Evaluate(CacheDicts, Symbols, MaxCacheCalls)
    \/ CallerClearsDict

SpecCache == Init /\ [][NextCache]_vars

\* the detector on RSI inputs
NextRsi == Evaluate(RsiDicts, {"BTCUSD"}, MaxCalls)

SpecRsi == Init /\ [][NextRsi]_vars

\* the detector on MACD inputs
NextMacd == Evaluate(MacdDicts, {"BTCUSD"}, MaxCalls)

SpecMacd == Init /\ [][NextMacd]_vars

\* the detector on price / 200 MA inputs
NextMa == Evaluate(MaDicts, {"BTCUSD"}, MaxCalls)

SpecMa == Init /\ [][NextMa]_vars

\* the detector on price / Bollinger band inputs
NextBb == Evaluate(BbDicts, {"BTCUSD"}, MaxCalls)

SpecBb == Init /\ [][NextBb]_vars

\* a save_indicator call, while fewer than max_rows rows were inserted
Record(observations, max_rows) ==
    /\ indicator_seq < max_rows
    /\ \E o \in observations, fault \in 0..2 :
           save_indicator_call(o.symbol, o.indicator_name, o.value, o.timeframe,
                               o.value2, o.value3, fault)

\* POST /api/maintenance/cleanup with days in 1..MaxDays
Purge == \E days \in 1..MaxDays, fault \in 0..2 : cleanup_old_data(days, fault)

\* a webhook request, while fewer than max_requests were accepted; serial:
\* only when no background task is waiting
Ingest(webhooks, serial, max_requests) ==
    /\ Len(ingested) < max_requests
    /\ serial => background = {}
    /\ \E webhook \in webhooks : receive_tradingview_webhook(webhook)

\* a waiting background task runs
Detect(fail_ats) ==
    \E task \in background, fail_at \in fail_ats : check_for_signals(task, fail_at)

\* a detector call whose save_signal calls all succeed
Signal(dicts, symbols, max_calls) ==
    /\ calls < max_calls
    /\ \E symbol \in symbols, indicators \in dicts :
           check_all_signals(symbol, indicators, 0)
    /\ UNCHANGED store_vars

\* POST /api/signals/{signal_id}/acknowledge with the id of a row that was
\* created, or the next id
Acknowledge == \E signal_id \in 1..(signal_seq + 1) : acknowledge_signal(signal_id)

\* save_indicator calls as time passes
NextRecord == Record(Observations, MaxIndicatorRows) \/ Tick

SpecRecord == Init /\ [][NextRecord]_vars

\* save_indicator and cleanup_old_data calls as time passes
NextStore == Record(StoreObservations, MaxStoreRows) \/ Purge \/ Tick

SpecStore == Init /\ [][NextStore]_vars

\* the web application: webhook requests and their background tasks, in
\* every order the event loop can run them
NextWeb == Ingest(RsiWebhooks, FALSE, MaxRequests) \/ Detect({0})

SpecWeb == Init /\ [][NextWeb]_vars

\* the web application when each request arrives after the background task
\* of the request before it has run
NextSerial == Ingest(RsiWebhooks, TRUE, MaxSerialRequests) \/ Detect({0})

SpecSerial == Init /\ [][NextSerial]_vars

\* the web application on composite updates, with storage errors in
\* save_signal
NextIngest == Ingest(CompositeWebhooks, FALSE, MaxCompositeRequests) \/ Detect(0..MaxFailAt)

SpecIngest == Init /\ [][NextIngest]_vars

\* the signal log: signals of one symbol are created, acknowledged and
\* purged as time passes
NextLog ==
    \/ Signal(LogDicts, {"BTCUSD"}, MaxLogCalls)
    \/ Acknowledge
    \/ Purge
    \/ (now < MaxLogNow /\ Tick)

SpecLog == Init /\ [][NextLog]_vars

\* the signal log and the indicator history: a signal is created,
\* acknowledged and purged, and an indicator is recorded and purged
NextRetention ==
    \/ Signal(LogDicts, {"BTCUSD"}, MaxRetentionCalls)
    \/ Acknowledge
    \/ Purge
    \/ Record({Observation("BTCUSD", "rsi_1d", Some(32), None, None, "1D")}, 1)
    \/ (now < MaxLogNow /\ Tick)

SpecRetention == Init /\ [][NextRetention]_vars

\* signals of two symbols are created and acknowledged as time passes
NextQuery ==
    \/ Signal(QueryDicts, Symbols, MaxQueryCalls)
    \/ Acknowledge
    \/ Tick

SpecQuery == Init /\ [][NextQuery]_vars

\* prices and 200 MA values of a symbol are recorded as time passes
NextSummary == Record(SummaryObservations, MaxStoreRows) \/ Tick

SpecSummary == Init /\ [][NextSummary]_vars

\* the detector on dicts that lack fields, with a working signal table
NextMissing == Signal(MissingDicts, {"BTCUSD"}, MaxCalls)

SpecMissing == Init /\ [][NextMissing]_vars

----------------------------------------------------------------------------
(* Vocabulary of the properties *)

\* the latest operation was a check_all_signals call that returned
Returned == call.op = "check_all_signals" /\ call.outcome = "returned"

RsiTypes == {"RSI_OVERSOLD", "RSI_OVERBOUGHT",
             "RSI_EXTREME_OVERSOLD", "RSI_EXTREME_OVERBOUGHT"}

MacdTypes == {"MACD_BULLISH_CROSS", "MACD_BEARISH_CROSS", "MACD_DIVERGENCE"}

MaTypes == {"MA200_BULLISH_CROSS", "MA200_BEARISH_CROSS"}

BbTypes == {"BB_UPPER_TOUCH", "BB_LOWER_TOUCH"}

\* the returned signals whose type is among types
OfTypes(types) == SelectSeq(call.signals, LAMBDA sig : sig.signal_type \in types)

\* the returned signals are exactly one signal of the given kind among types
ExactlyOne(types, signal_type, direction, strength) ==
    /\ Len(OfTypes(types)) = 1
    /\ OfTypes(types)[1].signal_type = signal_type
    /\ OfTypes(types)[1].direction = direction
    /\ OfTypes(types)[1].strength = strength

\* a number is stored under key k of dict d
Has(d, k) == Get(d, k) # None

\* the RSI input of a dict as the specification defines it: the daily value
\* when there is one, else the generic value
RsiInput(d) == IF Has(d, "rsi_1d") THEN Get(d, "rsi_1d") ELSE Get(d, "rsi")

CurRsi == RsiInput(call.indicators)

PrevRsi == RsiInput(call.prev)

\* the four RSI conditions of the specification
OversoldEntry ==
    /\ PrevRsi # None /\ CurRsi # None
    /\ PrevRsi[1] > RSI_OVERSOLD /\ CurRsi[1] <= RSI_OVERSOLD

OverboughtEntry ==
    /\ PrevRsi # None /\ CurRsi # None
    /\ PrevRsi[1] < RSI_OVERBOUGHT /\ CurRsi[1] >= RSI_OVERBOUGHT

ExtremeOversold == CurRsi # None /\ CurRsi[1] <= RSI_EXTREME_OVERSOLD

ExtremeOverbought == CurRsi # None /\ CurRsi[1] >= RSI_EXTREME_OVERBOUGHT

----------------------------------------------------------------------------
(* RSI rule *)

\* C1: a call whose previous RSI input is above 30 and whose current RSI
\* input is at most 30 (0 included) returns exactly one RSI signal, the
\* oversold entry, BULLISH, STRONG when current <= 20 and MEDIUM otherwise.
C1_OversoldEntryFires ==
    (Returned /\ OversoldEntry) =>
        ExactlyOne(RsiTypes, "RSI_OVERSOLD", "BULLISH",
                   IF CurRsi[1] <= RSI_EXTREME_OVERSOLD THEN "STRONG" ELSE "MEDIUM")

\* C2: a call whose previous RSI input is below 70 (0 included) and whose
\* current RSI input is at least 70 returns exactly one RSI signal, the
\* overbought entry, BEARISH, STRONG when current >= 80 and MEDIUM otherwise.
C2_OverboughtEntryFires ==
    (Returned /\ OverboughtEntry) =>
        ExactlyOne(RsiTypes, "RSI_OVERBOUGHT", "BEARISH",
                   IF CurRsi[1] >= RSI_EXTREME_OVERBOUGHT THEN "STRONG" ELSE "MEDIUM")

\* C3: every call in which neither entry condition holds and whose current
\* RSI input is at most 20 (0 included, with or without a previous RSI)
\* returns exactly one RSI signal, BULLISH/STRONG extreme oversold; being
\* true of every call, it is true of each call of a run that stays at most 20.
C3_ExtremeOversoldFires ==
    (Returned /\ ~OversoldEntry /\ ~OverboughtEntry /\ ExtremeOversold) =>
        ExactlyOne(RsiTypes, "RSI_EXTREME_OVERSOLD", "BULLISH", "STRONG")

\* the type of the first RSI condition that holds, in the order oversold
\* entry, overbought entry, extreme oversold, extreme overbought
FirstRsiMatch ==
    IF OversoldEntry THEN "RSI_OVERSOLD"
    ELSE IF OverboughtEntry THEN "RSI_OVERBOUGHT"
    ELSE IF ExtremeOversold THEN "RSI_EXTREME_OVERSOLD"
    ELSE IF ExtremeOverbought THEN "RSI_EXTREME_OVERBOUGHT"
    ELSE "none"

\* C4: a call returns at most one signal of each rule, hence at most four,
\* and the type of a returned RSI signal is that of the first RSI condition
\* that holds.
C4_OnePerRuleFirstMatch ==
    Returned =>
        /\ \A types \in {RsiTypes, MacdTypes, MaTypes, BbTypes} :
               Len(OfTypes(types)) <= 1
        /\ Len(call.signals) <= 4
        /\ \A i \in 1..Len(call.signals) :
               call.signals[i].signal_type \in
                   RsiTypes \cup MacdTypes \cup MaTypes \cup BbTypes
        /\ Len(OfTypes(RsiTypes)) = 1 =>
               OfTypes(RsiTypes)[1].signal_type = FirstRsiMatch

----------------------------------------------------------------------------
(* MACD rule *)

CurHist == Get(call.indicators, "macd_histogram")

PrevHist == Get(call.prev, "macd_histogram")

BullishCross ==
    PrevHist # None /\ CurHist # None /\ PrevHist[1] < 0 /\ CurHist[1] >= 0

BearishCross ==
    PrevHist # None /\ CurHist # None /\ PrevHist[1] > 0 /\ CurHist[1] <= 0

\* macd_line - macd_signal of the current dict, both present
MacdDiff == Get(call.indicators, "macd_line")[1] - Get(call.indicators, "macd_signal")[1]

LineAndSignal == Has(call.indicators, "macd_line") /\ Has(call.indicators, "macd_signal")

\* C5: previous histogram below 0 and current at least 0: exactly one MACD
\* signal, the BULLISH/MEDIUM cross; previous above 0 and current at most 0:
\* exactly one, the BEARISH/MEDIUM cross (so no divergence signal beside it);
\* previous histogram 0 or absent: no cross signal.
C5_MacdCross ==
    Returned =>
        /\ BullishCross =>
               ExactlyOne(MacdTypes, "MACD_BULLISH_CROSS", "BULLISH", "MEDIUM")
        /\ BearishCross =>
               ExactlyOne(MacdTypes, "MACD_BEARISH_CROSS", "BEARISH", "MEDIUM")
        /\ (PrevHist = None \/ PrevHist[1] = 0) =>
               Len(OfTypes({"MACD_BULLISH_CROSS", "MACD_BEARISH_CROSS"})) = 0

\* a cross was returned although line and signal are more than 500 apart
C5_Witness ==
    /\ Returned /\ BullishCross /\ LineAndSignal
    /\ Abs(MacdDiff) > MACD_DIVERGENCE
    /\ Len(OfTypes({"MACD_BULLISH_CROSS"})) = 1

\* what C6 promises of a call without a cross whose dict has line and signal
DivergenceDecides ==
    IF Abs(MacdDiff) > MACD_DIVERGENCE
    THEN ExactlyOne(MacdTypes, "MACD_DIVERGENCE",
                    IF MacdDiff > 0 THEN "BULLISH" ELSE "BEARISH", "WEAK")
    ELSE Len(OfTypes(MacdTypes)) = 0

\* C6 as claimed: in every call without a histogram cross whose current dict
\* has macd_line and macd_signal, |line - signal| > 500 gives exactly one MACD
\* signal, WEAK, BULLISH for line > signal and BEARISH for line < signal, and
\* |line - signal| <= 500 gives no MACD signal.
C6_DivergenceAsClaimed ==
    (Returned /\ ~BullishCross /\ ~BearishCross /\ LineAndSignal) => DivergenceDecides

\* C6 amended: the same, for the calls whose current dict also has
\* macd_histogram; without it the MACD rule returns no signal at all.
C6_Divergence ==
    (Returned /\ ~BullishCross /\ ~BearishCross /\ LineAndSignal
              /\ Has(call.indicators, "macd_histogram")) => DivergenceDecides

\* a BEARISH divergence was returned by a call that followed another
C6_Witness ==
    /\ Returned /\ ~BullishCross /\ ~BearishCross /\ LineAndSignal
    /\ PrevHist # None
    /\ MacdDiff < 0 - MACD_DIVERGENCE
    /\ Len(OfTypes({"MACD_DIVERGENCE"})) = 1

----------------------------------------------------------------------------
(* 200 MA rule *)

AllFour ==
    /\ Has(call.indicators, "price") /\ Has(call.indicators, "ma_200")
    /\ Has(call.prev, "price") /\ Has(call.prev, "ma_200")

CrossedAbove ==
    /\ AllFour
    /\ call.prev.price[1] < call.prev.ma_200[1]
    /\ call.indicators.price[1] > call.indicators.ma_200[1]

CrossedBelow ==
    /\ AllFour
    /\ call.prev.price[1] > call.prev.ma_200[1]
    /\ call.indicators.price[1] < call.indicators.ma_200[1]

\* C7: the BULLISH/STRONG cross is returned exactly when all four of current
\* and previous price and ma_200 are present, previous price < previous MA
\* and current price > current MA; the BEARISH/STRONG cross exactly in the
\* mirrored case; in every other case no MA signal is returned.
C7_Ma200Cross ==
    Returned =>
        IF CrossedAbove
        THEN ExactlyOne(MaTypes, "MA200_BULLISH_CROSS", "BULLISH", "STRONG")
        ELSE IF CrossedBelow
        THEN ExactlyOne(MaTypes, "MA200_BEARISH_CROSS", "BEARISH", "STRONG")
        ELSE Len(OfTypes(MaTypes)) = 0

\* a cross above was returned, from a previous price of 0
C7_Witness ==
    /\ Returned /\ CrossedAbove
    /\ call.prev.price[1] = 0
    /\ Len(OfTypes({"MA200_BULLISH_CROSS"})) = 1

----------------------------------------------------------------------------
(* Bollinger rule *)

AtOrAboveUpper(d) ==
    Has(d, "price") /\ Has(d, "bb_upper") /\ d.price[1] >= d.bb_upper[1]

AtOrBelowLower(d) ==
    /\ Has(d, "price") /\ Has(d, "bb_lower") /\ Has(d, "bb_upper")
    /\ d.price[1] <= d.bb_lower[1] /\ d.price[1] < d.bb_upper[1]

\* C8 as claimed: every call whose current dict has price >= bb_upper returns
\* the BEARISH/WEAK upper touch, and every call whose current dict has
\* price <= bb_lower and price < bb_upper returns the BULLISH/WEAK lower
\* touch, whatever the previous dict was.
C8_BollingerAsClaimed ==
    Returned =>
        /\ AtOrAboveUpper(call.indicators) =>
               ExactlyOne(BbTypes, "BB_UPPER_TOUCH", "BEARISH", "WEAK")
        /\ AtOrBelowLower(call.indicators) =>
               ExactlyOne(BbTypes, "BB_LOWER_TOUCH", "BULLISH", "WEAK")

\* C8 amended: the same, the upper touch for the calls whose current dict
\* has bb_lower as well; being true of every call whatever the previous dict,
\* the signal is returned again on every call while the condition holds.
C8_Bollinger ==
    Returned =>
        /\ (AtOrAboveUpper(call.indicators) /\ Has(call.indicators, "bb_lower")) =>
               ExactlyOne(BbTypes, "BB_UPPER_TOUCH", "BEARISH", "WEAK")
        /\ AtOrBelowLower(call.indicators) =>
               ExactlyOne(BbTypes, "BB_LOWER_TOUCH", "BULLISH", "WEAK")

\* two calls in a row had price >= bb_upper and each left its upper touch
C8_Witness ==
    /\ Returned
    /\ AtOrAboveUpper(call.indicators) /\ AtOrAboveUpper(call.prev)
    /\ Len(OfTypes({"BB_UPPER_TOUCH"})) = 1
    /\ Len(trading_signals) = 2
    /\ \A i \in 1..2 : trading_signals[i].signal_type = "BB_UPPER_TOUCH"

----------------------------------------------------------------------------
(* The cache and the signal table after a call *)

\* C9: after a call that returned, the cache entry of its symbol is the given
\* dict exactly (no key of the old entry survives, and clearing the caller's
\* dict afterwards does not reach it), the entry of every other symbol is what
\* it was before the call, and every returned signal carries the symbol.  The
\* call record only changes in check_all_signals, so this holding in every
\* state says that nothing else changes the cache.
C9_CacheReplaced ==
    Returned =>
        /\ call.symbol \in DOMAIN _last_values
        /\ cached(call.symbol) = call.indicators
        /\ \A s \in Symbols \ {call.symbol} :
               /\ s \in DOMAIN _last_values <=> s \in DOMAIN call.cache_before
               /\ s \in DOMAIN _last_values => cached(s) = call.cache_before[s]
        /\ \A i \in 1..Len(call.signals) : call.signals[i].symbol = call.symbol

\* a call for BTCUSD returned a signal and replaced an entry that had keys the
\* new dict lacks, while ETHUSD had an entry; then the caller cleared its dict
C9_Witness ==
    /\ Returned
    /\ call.symbol = "BTCUSD"
    /\ call.indicators # EmptyDict
    /\ \E k \in DOMAIN call.prev : k \notin DOMAIN call.indicators
    /\ "ETHUSD" \in DOMAIN _last_values
    /\ cached("ETHUSD") # EmptyDict
    /\ Len(call.signals) >= 1
    /\ caller_dict = EmptyDict

\* the rows the latest call appended
NewRows == SubSeq(trading_signals, call.rows_before + 1, Len(trading_signals))

\* C10: when a call has returned, the table holds one new row per returned
\* signal, in order, with the signal's symbol, type, direction, strength and
\* message, unacknowledged, with the whole current dict as its indicator
\* record and the current price as price_at_signal.
C10_SignalsPersisted ==
    Returned =>
        /\ Len(NewRows) = Len(call.signals)
        /\ \A i \in 1..Len(NewRows) :
               /\ NewRows[i].symbol = call.signals[i].symbol
               /\ NewRows[i].signal_type = call.signals[i].signal_type
               /\ NewRows[i].direction = call.signals[i].direction
               /\ NewRows[i].strength = call.signals[i].strength
               /\ NewRows[i].message = call.signals[i].message
               /\ NewRows[i].acknowledged = 0
               /\ NewRows[i].acknowledged_at = None
               /\ row_indicator_values(NewRows[i]) = Some(call.indicators)
               /\ NewRows[i].price_at_signal = Get(call.indicators, "price")
               /\ \A j \in 1..Len(trading_signals) :
                      trading_signals[j].id = NewRows[i].id
                          => j = call.rows_before + i

\* a call returned four signals, one of them STRONG, into a table that
\* already held rows
C10_Witness ==
    /\ Returned
    /\ Len(call.signals) = 4
    /\ call.rows_before > 0
    /\ Len(NewRows) = 4
    /\ \E i \in 1..4 : NewRows[i].strength = "STRONG"
    /\ NewRows[1].price_at_signal = Some(110)

----------------------------------------------------------------------------
(* Failure of save_signal *)

\* the latest operation was a check_all_signals call that raised
Raised == call.op = "check_all_signals" /\ call.outcome = "raised"

\* C11: when a save_signal of a check_all_signals call fails, the call raises
\* and the cache entry of its symbol still holds the previous dict (the empty
\* dict when there was none), so that the same dict given again meets the
\* same previous values.
C11_MemoryKeptOnFailure == Raised => cached(call.symbol) = call.prev

----------------------------------------------------------------------------
(* The webhook and its background task *)

\* the latest operation was a webhook request answered with 200
Accepted == response.op = "webhook" /\ response.status = 200

\* C12: when a webhook request has its 200 response, the check_for_signals
\* task of that request has run, so every signal of the update is in
\* trading_signals.
C12_DetectionBeforeResponse ==
    Accepted => \A task \in background : Some(task.id) # response.task

\* the accepted webhooks of a symbol, in order
IngestedOf(symbol) == SelectSeq(ingested, LAMBDA e : e.symbol = symbol)

\* the rows of trading_signals of a symbol whose type is among types
SignalRows(symbol, types) ==
    SelectSeq(trading_signals,
              LAMBDA row : row.symbol = symbol /\ row.signal_type \in types)

\* the webhook sets the daily RSI
SetsDailyRsi(webhook) ==
    upper(webhook.indicator) = "RSI" /\ lower(webhook.timeframe) = "1d"

\* the webhook writes neither of the two RSI keys the detector reads
LeavesRsi(webhook) ==
    /\ ~SetsDailyRsi(webhook)
    /\ lower(webhook.indicator) \notin {"rsi_1d", "rsi"}

\* C13: requests handled one at a time from the empty state: when the first
\* two accepted updates of a symbol set its daily RSI to a value above 30 and
\* then to a value in (20, 30], and every later update of the symbol leaves
\* its RSI keys alone, then once the tasks have run get_summary shows the
\* second value as indicators.rsi_daily and trading_signals holds exactly one
\* oversold row of the symbol, a BULLISH one.
C13_EndToEnd ==
    \A symbol \in Symbols :
        LET mine == IngestedOf(symbol)
        IN  ( /\ background = {}
              /\ Len(mine) >= 2
              /\ SetsDailyRsi(mine[1].webhook) /\ SetsDailyRsi(mine[2].webhook)
              /\ mine[1].webhook.value[1] > RSI_OVERSOLD
              /\ mine[2].webhook.value[1] <= RSI_OVERSOLD
              /\ mine[2].webhook.value[1] > RSI_EXTREME_OVERSOLD
              /\ \A i \in 3..Len(mine) : LeavesRsi(mine[i].webhook) )
            => /\ get_summary(Tables, symbol).indicators.rsi_daily
                      = mine[2].webhook.value
               /\ Len(SignalRows(symbol, {"RSI_OVERSOLD", "RSI_EXTREME_OVERSOLD"})) = 1
               /\ SignalRows(symbol, {"RSI_OVERSOLD"})[1].direction = "BULLISH"

\* BTCUSD got daily RSI 32, then 28, then a price; all three tasks have run
C13_Witness ==
    LET mine == IngestedOf("BTCUSD")
    IN  /\ background = {}
        /\ Len(mine) = 3
        /\ SetsDailyRsi(mine[1].webhook) /\ mine[1].webhook.value = Some(32)
        /\ SetsDailyRsi(mine[2].webhook) /\ mine[2].webhook.value = Some(28)
        /\ upper(mine[3].webhook.indicator) = "PRICE"
        /\ calls = 3
        /\ Len(SignalRows("BTCUSD", {"RSI_OVERSOLD"})) = 1
        /\ get_summary(Tables, "BTCUSD").price = Some(100)

\* the signals of check_all_signals called once per entry, in order, starting
\* with the previous dict prev
RECURSIVE chronological(_, _, _)
chronological(symbol, entries, prev) ==
    IF entries = << >> THEN << >>
    ELSE detected_signals(symbol, entries[1].snapshot, prev)
         \o chronological(symbol, Tail(entries), entries[1].snapshot)

AllTypes == RsiTypes \cup MacdTypes \cup MaTypes \cup BbTypes

\* C14: two updates of one symbol were accepted and both tasks have run, in
\* whatever order the requests and tasks were interleaved: the cache entry of
\* the symbol is the dict of latest values after the second update, and
\* trading_signals holds, type by type, as many rows of the symbol as the
\* order update 1, task 1, update 2, task 2 saves.
C14_AsInOrder ==
    ( /\ background = {}
      /\ Len(ingested) = 2
      /\ ingested[1].symbol = ingested[2].symbol )
    => LET symbol   == ingested[1].symbol
           in_order == chronological(symbol, ingested, EmptyDict)
       IN  /\ cached(symbol) = ingested[2].snapshot
           /\ \A type \in AllTypes :
                  Len(SignalRows(symbol, {type}))
                      = Len(SelectSeq(in_order, LAMBDA sig : sig.signal_type = type))

----------------------------------------------------------------------------
(* save_indicator: history and latest values *)

\* the rows of trading_indicators of a key, in insertion order
KeyRows(symbol, indicator_name) ==
    SelectSeq(trading_indicators,
              LAMBDA row : row.symbol = symbol /\ row.indicator_name = indicator_name)

\* the names under which trading_indicators has rows of a symbol
HistoryNames(symbol) ==
    {trading_indicators[i].indicator_name :
        i \in {j \in 1..Len(trading_indicators) : trading_indicators[j].symbol = symbol}}

\* C15: with save_indicator calls only, get_latest_indicators(symbol) has one
\* entry per indicator name saved for the symbol, and the entry has the value,
\* value2, value3 and timeframe of the row of that key saved last, whose
\* received_at no other row of the key exceeds.
C15_LatestIsNewest ==
    \A symbol \in Symbols :
        LET latest == get_latest_indicators(Tables, symbol).indicators
        IN  /\ DOMAIN latest = HistoryNames(symbol)
            /\ \A name \in DOMAIN latest :
                   LET rows == KeyRows(symbol, name)
                       last == rows[Len(rows)]
                   IN  /\ \A i \in 1..Len(rows) :
                              ~TextLess(last.received_at, rows[i].received_at)
                       /\ latest[name] = [value     |-> last.value,
                                          value2    |-> last.value2,
                                          value3    |-> last.value3,
                                          timeframe |-> last.timeframe]

\* BTCUSD rsi_1d was saved as 32 and a second later as 28 with value2 7 and
\* timeframe 4H, and after that another key was saved
C15_Witness ==
    /\ Len(KeyRows("BTCUSD", "rsi_1d")) = 2
    /\ KeyRows("BTCUSD", "rsi_1d")[1].value = Some(32)
    /\ KeyRows("BTCUSD", "rsi_1d")[2].value = Some(28)
    /\ TextLess(KeyRows("BTCUSD", "rsi_1d")[1].received_at,
                KeyRows("BTCUSD", "rsi_1d")[2].received_at)
    /\ Len(trading_indicators) = 3
    /\ trading_indicators[3].indicator_name = "price"
    /\ get_latest_indicators(Tables, "BTCUSD").indicators["rsi_1d"].timeframe = "4H"

\* C16: in every state, each row of latest_indicators has a row of its key in
\* trading_indicators with the same value, value2, value3 and timeframe, and
\* each key with a row in trading_indicators has a row in latest_indicators.
C16_HistoryAndLatestAgree ==
    /\ \A key \in DOMAIN latest_indicators :
           \E i \in 1..Len(KeyRows(key[1], key[2])) :
               LET row == KeyRows(key[1], key[2])[i]
               IN  /\ row.value = latest_indicators[key].value
                   /\ row.value2 = latest_indicators[key].value2
                   /\ row.value3 = latest_indicators[key].value3
                   /\ row.timeframe = latest_indicators[key].timeframe
    /\ \A i \in 1..Len(trading_indicators) :
           <<trading_indicators[i].symbol, trading_indicators[i].indicator_name>>
               \in DOMAIN latest_indicators

\* the latest operation was a save_indicator call
Saved == response.op = "save_indicator"

\* C17: a save_indicator call that raised, in its INSERT or in its INSERT OR
\* REPLACE, left trading_indicators, its id counter and latest_indicators as
\* they were before the call, and returned no row id.
C17_FailedRecordChangesNothing ==
    (Saved /\ response.error # "none") =>
        /\ Tables = response.before
        /\ response.row_id = None

\* a call failed in its second statement, on tables that held rows
C17_Witness ==
    /\ Saved
    /\ response.fault = 2
    /\ response.error = "OperationalError"
    /\ response.value # None
    /\ Len(trading_indicators) >= 1
    /\ <<response.symbol, response.indicator_name>> \notin DOMAIN latest_indicators

\* C18: a save_indicator call that meets no storage error succeeds, with or
\* without a value: it appends one row of its key to trading_indicators and
\* makes the observation the key's row of latest_indicators.
C18_RecordSucceeds ==
    (Saved /\ response.fault = 0) =>
        /\ response.error = "none"
        /\ Len(trading_indicators) = Len(response.before.trading_indicators) + 1
        /\ <<response.symbol, response.indicator_name>> \in DOMAIN latest_indicators
        /\ latest_indicators[<<response.symbol, response.indicator_name>>].value
               = response.value

----------------------------------------------------------------------------
(* Composite updates *)

\* the latest operation was a webhook request with the right secret whose
\* indicator is among the given names in upper case
Update(indicators) ==
    /\ response.op = "webhook"
    /\ response.webhook.secret = Some(WEBHOOK_SECRET)
    /\ upper(response.webhook.indicator) \in indicators

\* the latest value stored under a name for the symbol of the latest request
LatestValue(indicator_name) == Get(latest_values(Tables, response.symbol), indicator_name)

\* the names of the rows the latest request added to trading_indicators
NewNames ==
    {trading_indicators[i].indicator_name :
        i \in {j \in 1..Len(trading_indicators) :
                  trading_indicators[j].id > response.before.indicator_seq}}

\* C19: after a 'MACD' update, each of value, value2 and value3 that the
\* update carries is the latest value of macd_line, macd_signal and
\* macd_histogram respectively, whichever of the others are present.
C19_MacdExpansion ==
    Update({"MACD"}) =>
        /\ response.webhook.value # None =>
               LatestValue("macd_line") = response.webhook.value
        /\ response.webhook.value2 # None =>
               LatestValue("macd_signal") = response.webhook.value2
        /\ response.webhook.value3 # None =>
               LatestValue("macd_histogram") = response.webhook.value3

\* C20: after a 'BB' or 'BOLLINGER' update, the rows added to
\* trading_indicators are named bb_upper and bb_lower and nothing else, and
\* each of value and value2 that the update carries is the latest value of
\* bb_upper and bb_lower respectively, also when the other is absent.
C20_BollingerExpansion ==
    Update({"BB", "BOLLINGER"}) =>
        /\ NewNames \subseteq {"bb_upper", "bb_lower"}
        /\ response.webhook.value # None =>
               LatestValue("bb_upper") = response.webhook.value
        /\ response.webhook.value2 # None =>
               LatestValue("bb_lower") = response.webhook.value2

----------------------------------------------------------------------------
(* get_indicator_history *)

\* the second of the clock that a timestamp text denotes
instant(text) == text[1] * SecondsPerDay + text[3]

\* the columns get_indicator_history selects
history_columns(row) ==
    [value |-> row.value, value2 |-> row.value2, value3 |-> row.value3,
     received_at |-> row.received_at]

\* the rows of a key whose received_at is later than now - hours
NewerRows(symbol, indicator_name, hours) ==
    SelectSeq(KeyRows(symbol, indicator_name),
              LAMBDA row : instant(row.received_at) > now - hours * SecondsPerHour)

\* C21: in every state and for every window of 1 to MaxHours hours, every
\* result of get_indicator_history for a key holds exactly the rows of the
\* key whose received_at is later than now - hours, each once and in
\* ascending order of received_at.
C21_HistoryWindow ==
    \A symbol \in Symbols, hours \in 1..MaxHours :
        \A indicator_name \in HistoryNames(symbol) :
            \A result \in get_indicator_history(trading_indicators, symbol,
                                                indicator_name, hours) :
                LET newer == NewerRows(symbol, indicator_name, hours)
                IN  /\ Len(result) = Len(newer)
                    /\ {result[i] : i \in 1..Len(result)}
                           = {history_columns(newer[i]) : i \in 1..Len(newer)}
                    /\ \A i, j \in 1..Len(result) :
                           i < j => ~TextLess(result[j].received_at,
                                              result[i].received_at)

----------------------------------------------------------------------------
(* cleanup_old_data and the signal log *)

\* the rows of a table, as a set
RowSet(rows) == {rows[i] : i \in 1..Len(rows)}

\* the ids of the rows of a table
RowIds(rows) == {rows[i].id : i \in 1..Len(rows)}

\* the latest operation was a cleanup_old_data call that returned
Purged == response.op = "cleanup_old_data" /\ response.error = "none"

\* the latest operation was a cleanup_old_data call that raised
PurgeFailed == response.op = "cleanup_old_data" /\ response.error # "none"

\* a row received before the second now - days of the clock
OlderThan(row, at, days) == instant(row.received_at) < at - days * SecondsPerDay

\* a step is a cleanup_old_data call that returns
PurgeStep == \E days \in 1..MaxDays : cleanup_old_data(days, 0)

\* C22: in every step, a row of trading_signals that is no longer in the
\* table after the step had acknowledged = 1 before it; and after a step
\* that is a returning cleanup_old_data(days) call the table holds no row
\* with acknowledged = 1 that was received before now - days.
C22_PurgeKeepsUnacknowledged ==
    [][ /\ \A row \in RowSet(trading_signals) :
               row.id \notin RowIds(trading_signals') => row.acknowledged = 1
        /\ \A days \in 1..MaxDays :
               cleanup_old_data(days, 0) =>
                   \A row \in RowSet(trading_signals') :
                       ~(row.acknowledged = 1 /\ OlderThan(row, now, days)) ]_vars

\* a cleanup_old_data call deleted an acknowledged row received before the
\* cutoff and kept an unacknowledged row received before the cutoff
C22_Witness ==
    /\ Purged
    /\ \E a, u \in RowSet(response.before.signals) :
           /\ a.acknowledged = 1 /\ OlderThan(a, response.at, response.days)
           /\ a.id \notin RowIds(trading_signals)
           /\ u.acknowledged = 0 /\ OlderThan(u, response.at, response.days)
           /\ u \in RowSet(trading_signals)

\* C23: a step that is a returning cleanup_old_data(days) call removes from
\* trading_indicators exactly the rows received before now - days, and from
\* trading_signals exactly the rows with acknowledged = 1 received before
\* now - days; every other row of both tables is kept.
C23_PurgeExactlyOlder ==
    [][ \A days \in 1..MaxDays :
            cleanup_old_data(days, 0) =>
                /\ trading_indicators' =
                       SelectSeq(trading_indicators,
                                 LAMBDA row : ~OlderThan(row, now, days))
                /\ trading_signals' =
                       SelectSeq(trading_signals,
                                 LAMBDA row : ~(row.acknowledged = 1
                                                /\ OlderThan(row, now, days))) ]_vars

\* the two tables that cleanup_old_data deletes from
PurgeTables == [indicators |-> trading_indicators, signals |-> trading_signals]

\* the text that cleanup_old_data(days) compares received_at with
cutoff_text(days) == isoformat(now - days * SecondsPerDay)

\* C24: in every step that is a cleanup_old_data(days) call, with or without
\* a storage error in its first or second DELETE, the two tables after the
\* step are either both as before the step or both as after a call without
\* error; a call without error run again with the same cutoff on its own
\* result changes nothing; and its result is the same when the DELETE on
\* trading_signals runs before the DELETE on trading_indicators.
C24_PurgeIdempotentAtomic ==
    [][ \A days \in 1..MaxDays, fault \in 0..2 :
            cleanup_old_data(days, fault) =>
                LET done == cleanup_body(PurgeTables, cutoff_text(days), 0).tables
                IN  /\ PurgeTables' = PurgeTables \/ PurgeTables' = done
                    /\ fault = 0 => PurgeTables' = done
                    /\ fault # 0 => PurgeTables' = PurgeTables
                    /\ cleanup_body(done, cutoff_text(days), 0).tables = done
                    /\ done = [indicators |->
                                   delete_old_indicators(trading_indicators,
                                                         cutoff_text(days)),
                               signals |->
                                   delete_old_signals(trading_signals,
                                                      cutoff_text(days))] ]_vars

\* a cleanup_old_data call raised in its second DELETE, after its first DELETE
\* had removed a row and with a row for the second to remove, and both tables
\* are as before the call
C24_Witness ==
    /\ PurgeFailed
    /\ response.fault = 2
    /\ LET cutoff == isoformat(response.at - response.days * SecondsPerDay)
       IN  /\ delete_old_indicators(response.before.indicators, cutoff)
                  # response.before.indicators
           /\ delete_old_signals(response.before.signals, cutoff)
                  # response.before.signals
    /\ response.before.indicators # << >>
    /\ PurgeTables = response.before

----------------------------------------------------------------------------
(* acknowledge_signal *)

\* the latest operation was an acknowledge request
Acknowledged == response.op = "acknowledge_signal"

\* C25: in every step that is an acknowledge request for an id, the call
\* returns True exactly when trading_signals held a row with that id before
\* the step; then the response is 200 and the row has acknowledged = 1 after
\* the step; otherwise the table is unchanged and the response is 404.
C25_AcknowledgeFound ==
    [][ \A signal_id \in 1..(signal_seq + 1) :
            acknowledge_signal(signal_id) =>
                LET exists == signal_id \in RowIds(trading_signals)
                IN  /\ response'.success = exists
                    /\ exists =>
                           /\ response'.status = 200
                           /\ \E row \in RowSet(trading_signals') :
                                  row.id = signal_id /\ row.acknowledged = 1
                    /\ ~exists =>
                           /\ response'.status = 404
                           /\ trading_signals' = trading_signals ]_vars

\* an acknowledge request for the id of a row that a purge deleted got 404,
\* while the table holds a row that an earlier request acknowledged
C25_Witness ==
    /\ Acknowledged
    /\ response.status = 404
    /\ response.signal_id <= signal_seq
    /\ response.signal_id \notin RowIds(trading_signals)
    /\ \E row \in RowSet(trading_signals) : row.acknowledged = 1

\* the row of a table with the given id (the table has one)
RowOf(rows, id) == CHOOSE row \in RowSet(rows) : row.id = id

\* C26: an acknowledge request for a row that has acknowledged = 1 returns
\* True with response 200 and the row has acknowledged = 1 after it; in every
\* step, a row with acknowledged = 1 that is still in the table after the
\* step has acknowledged = 1; and in every state a row has a non-null
\* acknowledged_at exactly when it has acknowledged = 1.
C26_AcknowledgeIdempotentMonotonic ==
    /\ [][ /\ \A signal_id \in RowIds(trading_signals) :
                  (acknowledge_signal(signal_id)
                       /\ RowOf(trading_signals, signal_id).acknowledged = 1) =>
                      /\ response'.success /\ response'.status = 200
                      /\ RowOf(trading_signals', signal_id).acknowledged = 1
           /\ \A id \in RowIds(trading_signals) \cap RowIds(trading_signals') :
                  RowOf(trading_signals, id).acknowledged = 1 =>
                      RowOf(trading_signals', id).acknowledged = 1 ]_vars
    /\ [](\A row \in RowSet(trading_signals) :
              row.acknowledged = 1 <=> row.acknowledged_at # None)

\* a row was acknowledged a second time, at a later second than the first
C26_Witness ==
    /\ Acknowledged
    /\ response.success
    /\ LET was == RowOf(response.before, response.signal_id)
       IN  /\ was.acknowledged = 1
           /\ TextLess(was.acknowledged_at[1], sqlite_timestamp(response.at))
    /\ RowOf(trading_signals, response.signal_id).acknowledged = 1

\* a step is a check_all_signals call
EvaluateStep ==
    \E symbol \in Symbols, indicators \in LogDicts, fail_at \in 0..MaxFailAt :
        check_all_signals(symbol, indicators, fail_at)

\* a step is an acknowledge request
AcknowledgeStep == \E signal_id \in 1..(signal_seq + 1) : acknowledge_signal(signal_id)

\* a step is a cleanup_old_data call
CleanupStep == \E days \in 1..MaxDays, fault \in 0..2 : cleanup_old_data(days, fault)

\* C27: in every step of detector calls, save_indicator calls, acknowledge
\* requests, cleanup_old_data calls and the clock, a row of trading_signals
\* that is in the table before and after the step has the same id, symbol,
\* signal_type, direction, strength, price_at_signal, indicator_values,
\* message and received_at; its acknowledged or acknowledged_at differ only
\* if the step is an acknowledge request; a row leaves the table only in a
\* cleanup_old_data call and a row enters it only in a check_all_signals call.
C27_SignalImmutable ==
    [][ /\ \A id \in RowIds(trading_signals) \cap RowIds(trading_signals') :
               LET old == RowOf(trading_signals, id)
                   new == RowOf(trading_signals', id)
               IN  /\ new = [old EXCEPT !.acknowledged = new.acknowledged,
                                        !.acknowledged_at = new.acknowledged_at]
                   /\ (new # old) => AcknowledgeStep
        /\ RowIds(trading_signals) \ RowIds(trading_signals') # {} => CleanupStep
        /\ RowIds(trading_signals') \ RowIds(trading_signals) # {} => EvaluateStep
      ]_vars

\* a signal row was acknowledged after an indicator of its symbol was
\* recorded later than the signal, with another value than the row's snapshot
C27_Witness ==
    /\ Acknowledged
    /\ response.success
    /\ \E ind \in RowSet(trading_indicators) :
           LET row == RowOf(trading_signals, response.signal_id)
           IN  /\ ind.symbol = row.symbol
               /\ TextLess(row.received_at, ind.received_at)
               /\ row = [RowOf(response.before, response.signal_id)
                             EXCEPT !.acknowledged = 1,
                                    !.acknowledged_at = Some(sqlite_timestamp(response.at))]
               /\ RowOf(response.before, response.signal_id).acknowledged = 0

----------------------------------------------------------------------------
(* get_signals *)

\* the filters a caller may give: no symbol or one, no acknowledged flag or one
SymbolFilters == {None} \cup {Some(symbol) : symbol \in Symbols}

AcknowledgedFilters == {None, Some(TRUE), Some(FALSE)}

\* a row passes the filters that are given
Matches(row, symbol, acknowledged) ==
    /\ symbol # None => row.symbol = symbol[1]
    /\ acknowledged # None => (row.acknowledged = 1) = acknowledged[1]

\* C28: in every state, for every symbol filter, acknowledged filter and
\* limit of 1 to MaxLimit, every result of get_signals has at most limit
\* rows, all of them rows of the table that pass the filters; a row comes
\* before the rows that were inserted before it (ids are given in insertion
\* order); and no row of the table that passes the filters and is not in
\* the result was inserted after a row of the result.
C28_QueryNewestFirst ==
    \A symbol \in SymbolFilters, acknowledged \in AcknowledgedFilters :
        \A limit \in 1..MaxLimit :
            \A result \in get_signals(trading_signals, symbol, limit, acknowledged) :
                /\ Len(result) <= limit
                /\ \A i \in 1..Len(result) :
                       /\ result[i] \in RowSet(trading_signals)
                       /\ Matches(result[i], symbol, acknowledged)
                /\ \A i, j \in 1..Len(result) : i < j => result[i].id > result[j].id
                /\ \A row \in RowSet(trading_signals) \ RowSet(result) :
                       Matches(row, symbol, acknowledged) =>
                           \A i \in 1..Len(result) : row.id < result[i].id

----------------------------------------------------------------------------
(* get_summary *)

\* latest_indicators has a row of the symbol under the name
Present(symbol, indicator_name) == <<symbol, indicator_name>> \in DOMAIN latest_indicators

\* the value of that row
LatestOf(symbol, indicator_name) == latest_indicators[<<symbol, indicator_name>>].value[1]

\* C29: in every state and for every symbol, the trend of get_summary is
\* BULLISH exactly when latest_indicators has a price and a ma_200 of the
\* symbol and price > ma_200, BEARISH exactly when it has both and
\* price < ma_200, and NEUTRAL otherwise.
C29_Trend ==
    \A symbol \in Symbols :
        LET trend == get_summary(Tables, symbol).trend
            both  == Present(symbol, "price") /\ Present(symbol, "ma_200")
        IN  /\ trend \in {"BULLISH", "BEARISH", "NEUTRAL"}
            /\ trend = "BULLISH" <=>
                   (both /\ LatestOf(symbol, "price") > LatestOf(symbol, "ma_200"))
            /\ trend = "BEARISH" <=>
                   (both /\ LatestOf(symbol, "price") < LatestOf(symbol, "ma_200"))

\* the updated_at texts of the latest_indicators rows of a symbol
UpdatedAt(symbol) ==
    {latest_indicators[k].updated_at : k \in {k \in DOMAIN latest_indicators : k[1] = symbol}}

\* C30: in every state and for every symbol, last_updated of
\* get_latest_indicators is the greatest updated_at of the latest_indicators
\* rows of the symbol, and None when the symbol has no row; and
\* data_freshness of get_summary is that same value.
C30_Freshness ==
    \A symbol \in Symbols :
        LET last_updated == get_latest_indicators(Tables, symbol).last_updated
        IN  /\ UpdatedAt(symbol) = {} => last_updated = None
            /\ UpdatedAt(symbol) # {} => last_updated = Some(MaxText(UpdatedAt(symbol)))
            /\ get_summary(Tables, symbol).data_freshness = last_updated

\* one symbol has two rows updated at different seconds, both before the
\* current second, and its data_freshness is the later of the two; the other
\* symbol has no row and its data_freshness is None
C30_Witness ==
    /\ Cardinality(UpdatedAt("BTCUSD")) = 2
    /\ get_summary(Tables, "BTCUSD").data_freshness = Some(MaxText(UpdatedAt("BTCUSD")))
    /\ TextLess(MaxText(UpdatedAt("BTCUSD")), CURRENT_TIMESTAMP)
    /\ UpdatedAt("ETHUSD") = {}
    /\ get_summary(Tables, "ETHUSD").data_freshness = None

----------------------------------------------------------------------------
(* The inputs of the rules *)

\* the latest operation was a check_all_signals call
Called == call.op = "check_all_signals"

\* C35: in every check_all_signals call, the RSI value given to the RSI rule
\* for the current dict and for the previous dict is the number under rsi_1d
\* when the dict has a number there, the number 0 included, and the value
\* under rsi only when it has none.
C35_DailyRsiPreferred ==
    Called =>
        /\ rsi_argument(call.indicators) = RsiInput(call.indicators)
        /\ rsi_argument(call.prev) = RsiInput(call.prev)

\* the signals the rules of the latest call emitted, saved or not
Emitted == detected_signals(call.symbol, call.indicators, call.prev)

\* the emitted signals whose type is among types
EmittedOf(types) == SelectSeq(Emitted, LAMBDA sig : sig.signal_type \in types)

\* the signals of the given types that the rules emit when the current and the
\* previous dict hold the given fields only
EmittedAlone(types, fields) ==
    SelectSeq(detected_signals(call.symbol,
                               Without(call.indicators, DOMAIN call.indicators \ fields),
                               Without(call.prev, DOMAIN call.prev \ fields)),
              LAMBDA sig : sig.signal_type \in types)

\* C34: in every check_all_signals call on dicts that lack any subset of the
\* fields of a rule, absent or null, in the current or the previous dict,
\* and with a signal table that takes every row: the call returns the
\* signals the rules emit; the RSI rule emits nothing without a current RSI and no entry signal without a
\* previous RSI; the MACD rule emits nothing without a current histogram, no
\* cross without a previous histogram and no divergence without line and
\* signal; the 200 MA rule emits nothing unless price and MA are there in
\* both dicts; the Bollinger rule emits nothing without a price and no touch
\* of a band that is not there; each rule emits what it emits when the
\* fields of the other rules are removed; and the cache entry of the symbol
\* is the current dict.
C34_MissingDataNoError ==
    Called =>
        LET cur  == call.indicators
            prev == call.prev
            types(list) == {list[i].signal_type : i \in 1..Len(list)}
        IN  /\ Returned
            /\ call.signals = Emitted
            /\ RsiInput(cur) = None => EmittedOf(RsiTypes) = << >>
            /\ RsiInput(prev) = None =>
                   types(Emitted) \cap {"RSI_OVERSOLD", "RSI_OVERBOUGHT"} = {}
            /\ ~Has(cur, "macd_histogram") => EmittedOf(MacdTypes) = << >>
            /\ ~Has(prev, "macd_histogram") =>
                   types(Emitted) \cap {"MACD_BULLISH_CROSS", "MACD_BEARISH_CROSS"} = {}
            /\ ~(Has(cur, "macd_line") /\ Has(cur, "macd_signal")) =>
                   "MACD_DIVERGENCE" \notin types(Emitted)
            /\ ~(Has(cur, "price") /\ Has(cur, "ma_200")
                     /\ Has(prev, "price") /\ Has(prev, "ma_200")) =>
                   EmittedOf(MaTypes) = << >>
            /\ ~Has(cur, "price") => EmittedOf(BbTypes) = << >>
            /\ ~Has(cur, "bb_upper") => "BB_UPPER_TOUCH" \notin types(Emitted)
            /\ ~Has(cur, "bb_lower") => "BB_LOWER_TOUCH" \notin types(Emitted)
            /\ EmittedOf(RsiTypes) = EmittedAlone(RsiTypes, RuleFields.rsi)
            /\ EmittedOf(MacdTypes) = EmittedAlone(MacdTypes, RuleFields.macd)
            /\ EmittedOf(MaTypes) = EmittedAlone(MaTypes, RuleFields.ma)
            /\ EmittedOf(BbTypes) = EmittedAlone(BbTypes, RuleFields.bb)
            /\ cached(call.symbol) = cur

\* a call returned on a current dict without MACD fields and a previous dict
\* without a 200 MA: the MACD and the 200 MA rule emitted nothing, the RSI and
\* the Bollinger rule emitted their signals, and the cache has the current dict
C34_Witness ==
    /\ Returned
    /\ call.indicators = Without(AfterCross, RuleFields.macd)
    /\ call.prev = Without(BeforeCross, {"ma_200"})
    /\ OfTypes(MacdTypes) = << >>
    /\ OfTypes(MaTypes) = << >>
    /\ Len(OfTypes(RsiTypes)) = 1
    /\ Len(OfTypes(BbTypes)) = 1
    /\ cached("BTCUSD") = call.indicators

\* a deployment started with WEBHOOK_SECRET set, or without it
InitEnvironment ==
    /\ _last_values = EmptyDict
    /\ trading_signals = << >>
    /\ signal_seq = 0
    /\ call = NoCall
    /\ caller_dict = EmptyDict
    /\ calls = 0
    /\ trading_indicators = << >>
    /\ indicator_seq = 0
    /\ latest_indicators = EmptyDict
    /\ now = 0
    /\ background = {}
    /\ response = NoCall
    /\ ingested = << >>
    /\ WEBHOOK_SECRET \in {CONFIGURED_SECRET, PLACEHOLDER_SECRET}
    /\ exchange_positions = << >>
    /\ exchange_balances = << >>

\* the web application under either configuration, on requests with and
\* without the right secret
NextSecret == Ingest(SecretWebhooks, FALSE, MaxRequests) \/ Detect({0})

SpecSecret == InitEnvironment /\ [][NextSecret]_vars

\* the step is a webhook request that got its response
WebhookStep == response' # response /\ response'.op = "webhook"

\* the secret of the request of the step is not the configured one
WrongSecret == response'.webhook.secret # Some(WEBHOOK_SECRET)

\* C37: with a secret other than the placeholder configured, a webhook
\* request whose secret differs from it or is missing is answered 401 and
\* leaves trading_indicators, latest_indicators, the background tasks,
\* trading_signals and _last_values as they were and makes no detector call;
\* with the placeholder configured no request is answered 401, whatever its
\* secret, and a request whose value is present is answered 200 and gets its
\* background task.
C37_SecretRejectsOrPlaceholderAccepts ==
    [][WebhookStep =>
        /\ (WEBHOOK_SECRET # PLACEHOLDER_SECRET /\ WrongSecret) =>
              /\ response'.status = 401
              /\ UNCHANGED <<trading_indicators, indicator_seq, latest_indicators,
                             background, ingested>>
              /\ UNCHANGED detector_vars
        /\ (WEBHOOK_SECRET # PLACEHOLDER_SECRET /\ ~WrongSecret) =>
              response'.status # 401
        /\ WEBHOOK_SECRET = PLACEHOLDER_SECRET =>
              /\ response'.status # 401
              /\ response'.webhook.value # None =>
                    /\ response'.status = 200
                    /\ background' # background
                    /\ trading_indicators' # trading_indicators]_vars

\* a request without secret was answered 401 after an accepted update had
\* stored a row and had its detector call
C37_Witness ==
    /\ WEBHOOK_SECRET = CONFIGURED_SECRET
    /\ response.op = "webhook" /\ response.status = 401
    /\ response.webhook.secret = None
    /\ response.before.trading_indicators # << >>
    /\ trading_indicators = response.before.trading_indicators
    /\ calls = 1
    /\ background = {}

\* under the placeholder a request with another secret was answered 200
C37_WitnessPlaceholder ==
    /\ WEBHOOK_SECRET = PLACEHOLDER_SECRET
    /\ response.op = "webhook" /\ response.status = 200
    /\ response.webhook.secret = Some("wrong")
    /\ trading_indicators # << >>

\* the web application with its background tasks run by the event loop:
\* a task that waits is run
NextDelivery ==
    \/ Ingest(DeliveryWebhooks, FALSE, MaxRequests)
    \/ Detect(0..MaxFailAt)

SpecDelivery ==
    Init /\ [][NextDelivery]_vars /\ WF_vars(Detect(0..MaxFailAt))

\* the background task of the i-th accepted webhook
TaskOf(i) == [id |-> i, symbol |-> ingested[i].symbol]

\* the i-th accepted webhook has had its check_for_signals task run
Evaluated(i) == i <= Len(ingested) /\ TaskOf(i) \notin background

\* the step runs the task of the i-th accepted webhook
TaskStep(i) ==
    /\ i <= Len(ingested)
    /\ TaskOf(i) \in background
    /\ TaskOf(i) \notin background'

\* the dict holds, under every key the i-th accepted webhook wrote, the value
\* written by that webhook or by a later accepted webhook of the symbol
HoldsUpdate(dict, i) ==
    LET saves == webhook_saves(ingested[i].webhook)
    IN  \A k \in 1..Len(saves) :
            /\ saves[k].indicator_name \in DOMAIN dict
            /\ \E j \in i..Len(ingested) :
                   /\ ingested[j].symbol = ingested[i].symbol
                   /\ \E m \in 1..Len(webhook_saves(ingested[j].webhook)) :
                          LET s == webhook_saves(ingested[j].webhook)[m]
                          IN  /\ s.indicator_name = saves[k].indicator_name
                              /\ dict[s.indicator_name] = s.value

\* C36: every webhook answered 200 has stored its rows and is eventually
\* followed by its check_for_signals task, which makes one check_all_signals
\* call for the symbol of the webhook on a dict that holds, under every key
\* the webhook wrote, the value of that webhook or of a later one; the calls
\* made and the tasks waiting are as many as the accepted webhooks, and a
\* webhook answered 401 or 500 stores nothing, adds no task and makes no call.
C36_AcceptedUpdateEvaluated ==
    /\ \A i \in 1..MaxRequests : (Len(ingested) >= i) ~> Evaluated(i)
    /\ [](calls + Cardinality(background) = Len(ingested))
    /\ [][\A i \in 1..MaxRequests :
             TaskStep(i) =>
                 /\ calls' = calls + 1
                 /\ call'.symbol = ingested[i].symbol
                 /\ HoldsUpdate(call'.indicators, i)]_vars
    /\ [][(WebhookStep /\ response'.status = 200) =>
             /\ Len(ingested') = Len(ingested) + 1
             /\ TaskOf(Len(ingested))' \in background'
             /\ HoldsUpdate(latest_values(Tables, response.symbol), Len(ingested))']_vars
    /\ [][(WebhookStep /\ response'.status # 200) =>
             /\ UNCHANGED <<trading_indicators, indicator_seq, latest_indicators,
                            background, ingested>>
             /\ UNCHANGED detector_vars]_vars

\* the task of the first of two accepted updates of one key ran after the
\* second was stored, on the value of the second
C36_Witness ==
    /\ Len(ingested) = 2
    /\ ingested[1].symbol = ingested[2].symbol
    /\ indicator_key(ingested[1].webhook) = indicator_key(ingested[2].webhook)
    /\ ingested[1].webhook.value # ingested[2].webhook.value
    /\ Evaluated(1) /\ ~Evaluated(2)
    /\ calls = 1
    /\ Called /\ call.indicators[indicator_key(ingested[1].webhook)] = ingested[2].webhook.value

\* the rows a cleanup_old_data call that returned has deleted from both tables
DeletedRows ==
    (Len(response.before.indicators) - Len(trading_indicators))
    + (Len(response.before.signals) - Len(trading_signals))

\* C38: after a cleanup_old_data call that returned, the count it returned
\* (deleted_rows of the endpoint) is the number of rows it deleted from
\* trading_indicators plus the number it deleted from trading_signals, so it
\* is greater than 0 when a row of trading_indicators was deleted.
C38_DeletedRowsCountsBothTables ==
    Purged =>
        /\ response.rowcount = Some(DeletedRows)
        /\ Len(trading_indicators) < Len(response.before.indicators) =>
              response.rowcount[1] > 0

\* an observation of the daily RSI and one without value
HistoryObservations ==
    {Observation("BTCUSD", "rsi_1d", Some(32), None, None, "1D"),
     Observation("BTCUSD", "price", None, None, None, "1D")}

\* an update of the daily RSI with the values of that observation and one of
\* the three MACD values
HistoryWebhooks ==
    {Webhook("BTCUSD", "RSI", Some(32), None, None, "1D", CONFIGURED_SECRET),
     Webhook("BTCUSD", "MACD", Some(5), Some(3), Some(2), "1D", CONFIGURED_SECRET)}

\* the indicator history under all its writers: save_indicator calls, webhook
\* requests (each after the background task of the one before has run),
\* cleanup_old_data calls and the clock
NextHistory ==
    \/ Record(HistoryObservations, MaxStoreRows)
    \/ Ingest(HistoryWebhooks, TRUE, MaxCompositeRequests)
    \/ Detect({0})
    \/ Purge
    \/ (now < MaxLogNow /\ Tick)

SpecHistory == Init /\ [][NextHistory]_vars

\* the rows of trading_indicators' behind those of trading_indicators
AddedRows == SubSeq(trading_indicators', Len(trading_indicators) + 1, Len(trading_indicators'))

\* the step is a save_indicator call or a webhook request that returned
RecordedStep ==
    /\ response' # response
    /\ \/ response'.op = "save_indicator" /\ response'.error = "none"
       \/ response'.op = "webhook" /\ response'.status = 200

\* the names the call of the step stored, in order
StoredNames ==
    IF response'.op = "save_indicator" THEN <<response'.indicator_name>>
    ELSE [k \in 1..Len(webhook_saves(response'.webhook)) |->
              webhook_saves(response'.webhook)[k].indicator_name]

\* C39: in every step of save_indicator calls, webhook requests, background
\* tasks, cleanup_old_data calls and the clock: unless the step is a
\* cleanup_old_data call, the rows of trading_indicators before the step are
\* its first rows after the step, unchanged; a save_indicator call or webhook
\* request that returned has added one row per name it stored, in order, each
\* with an id greater than every id given out before and than the id of the
\* row added before it, and any other step has added none; a
\* cleanup_old_data call adds and changes no row.
C39_HistoryAppendOnly ==
    [][ /\ ~CleanupStep =>
               /\ Len(trading_indicators') >= Len(trading_indicators)
               /\ SubSeq(trading_indicators', 1, Len(trading_indicators)) = trading_indicators
        /\ CleanupStep => RowSet(trading_indicators') \subseteq RowSet(trading_indicators)
        /\ IF RecordedStep
           THEN /\ Len(AddedRows) = Len(StoredNames)
                /\ \A k \in 1..Len(AddedRows) :
                       /\ AddedRows[k].indicator_name = StoredNames[k]
                       /\ AddedRows[k].id > indicator_seq
                       /\ \A i \in 1..Len(trading_indicators) :
                              AddedRows[k].id > trading_indicators[i].id
                       /\ \A j \in 1..(k - 1) : AddedRows[k].id > AddedRows[j].id
                /\ indicator_seq' = indicator_seq + Len(AddedRows)
           ELSE /\ Len(trading_indicators') <= Len(trading_indicators)
                /\ indicator_seq' = indicator_seq ]_vars

\* after a cleanup_old_data call had deleted the row with id 1, a
\* save_indicator call and a webhook request added two rows of the same key
\* and values, with ids 2 and 3
C39_Witness ==
    /\ response.op = "webhook" /\ response.status = 200
    /\ indicator_seq = 3
    /\ Len(trading_indicators) = 2
    /\ trading_indicators[1].id = 2 /\ trading_indicators[2].id = 3
    /\ trading_indicators[1].indicator_name = trading_indicators[2].indicator_name
    /\ trading_indicators[1].value = trading_indicators[2].value
    /\ trading_indicators[1].symbol = trading_indicators[2].symbol

\* a request to one of the five query endpoints
Query(symbols) ==
    \/ \E symbol \in symbols : api_get_indicators(symbol)
    \/ \E symbol \in symbols, indicator \in QueryIndicators :
           api_get_indicator(symbol, indicator)
    \/ \E symbol \in symbols, indicator \in QueryIndicators, hours \in 1..MaxHours :
           api_get_indicator_history(symbol, indicator, hours)
    \/ \E symbol \in symbols, limit \in 1..MaxLimit :
           api_get_signals(Some(symbol), limit)
    \/ \E symbol \in symbols : api_get_summary(symbol)

\* the query endpoints while indicators of one symbol are recorded and its
\* signals are created
NextQueries ==
    \/ Record(HistoryObservations, MaxStoreRows)
    \/ Signal(LogDicts, {"BTCUSD"}, MaxLogCalls)
    \/ Query(QuerySymbols)
    \/ (now < MaxLogNow /\ Tick)

SpecQueries == Init /\ [][NextQueries]_vars

QueryOps == {"get_indicators", "get_indicator", "get_indicator_history",
             "get_signals", "get_summary"}

\* no table holds a row of the symbol
NoData(symbol) ==
    /\ \A i \in 1..Len(trading_indicators) : trading_indicators[i].symbol # symbol
    /\ \A k \in DOMAIN latest_indicators : k[1] # symbol
    /\ \A i \in 1..Len(trading_signals) : trading_signals[i].symbol # symbol

\* the body of the answer is the empty or default result of its endpoint
EmptyResult(answered) ==
    CASE answered.op = "get_indicators" ->
             answered.body.indicators = EmptyDict /\ answered.body.last_updated = None
      [] answered.op = "get_indicator" -> answered.status = 200
      [] answered.op = "get_indicator_history" -> answered.body.history = << >>
      [] answered.op = "get_signals" -> answered.body.signals = << >>
      [] answered.op = "get_summary" ->
             /\ answered.body.price = None
             /\ answered.body.trend = "NEUTRAL"
             /\ answered.body.active_signals = << >>
             /\ answered.body.data_freshness = None

\* C33: every request to a query endpoint (latest indicators, one indicator,
\* indicator history, signal list, summary) for a symbol of which no table
\* holds a row is answered 200 with the empty or default result of the
\* endpoint.
C33_NoDataNoError ==
    [][(response' # response /\ response'.op \in QueryOps /\ NoData(response'.symbol)) =>
           /\ response'.status = 200
           /\ EmptyResult(response')]_vars

\* positions a sync stores: one open or closed (quantity 0), with and without
\* unrealized_pnl, and one of another symbol
SyncPosition ==
    \/ \E quantity \in {0, 1}, unrealized_pnl \in {None, Some(-3)} :
           upsert_position_call("binance", "BTCUSDT", "LONG", quantity, Some(100),
                                unrealized_pnl)
    \/ upsert_position_call("binance", "ETHUSDT", "SHORT", 2, None, Some(5))

\* a sync clears the positions of its exchange
ClearPositions == clear_positions_call("binance")

\* a balance a sync stores
SyncBalance == upsert_balance_call("coinbase", "BTC", 1, 0, Some(7))

\* a dict on which a call detects RSI_EXTREME_OVERSOLD and MACD_DIVERGENCE
OverviewDicts ==
    {[rsi_1d |-> Some(15), macd_histogram |-> Some(1),
      macd_line |-> Some(600), macd_signal |-> Some(0)]}

\* a request to the summary endpoint, for a symbol with and without data
Summarize == \E symbol \in {"BTCUSD", "SOLUSD"} : api_get_summary(symbol)

\* the summary while an indicator is recorded and the exchange accounts are
\* synced over a few seconds, and signals are created at the end
NextOverview ==
    \/ Signal({[rsi_1d |-> Some(15)]}, {"BTCUSD"}, MaxRetentionCalls)
    \/ Record({Observation("BTCUSD", "rsi_1d", Some(32), None, None, "1D")}, 1)
    \/ SyncPosition
    \/ ClearPositions
    \/ SyncBalance
    \/ Summarize
    \/ (now < SecondsPerHour /\ Tick /\ trading_signals = << >>)

SpecOverview == Init /\ [][NextOverview]_vars

\* the summary while calls of the detector create two signals each and
\* positions are synced
NextActive ==
    \/ Signal(OverviewDicts, {"BTCUSD"}, MaxLogCalls)
    \/ SyncPosition
    \/ Summarize
    \/ (now < SecondsPerHour /\ Tick)

SpecActive == Init /\ [][NextActive]_vars

\* the step is a request to the summary endpoint that was answered
SummaryStep == response' # response /\ response'.op = "get_summary"

\* the rows of trading_signals of the symbol
SignalsOf(symbol) == {row \in RowSet(trading_signals) : row.symbol = symbol}

\* the sum of unrealized_pnl over position rows, a missing one counting as 0
RECURSIVE PnlSum(_)
PnlSum(positions) ==
    IF positions = << >> THEN 0
    ELSE (IF positions[1].unrealized_pnl = None THEN 0
          ELSE positions[1].unrealized_pnl[1]) + PnlSum(Tail(positions))

\* C31: in every answered request to the summary endpoint, active_signals
\* has at most 5 rows, all of them rows of trading_signals of the symbol, as
\* many as there are up to 5; a row comes before the rows that were inserted
\* before it, and no row of the symbol that is left out was inserted after a
\* row of the list; positions holds the rows of exchange_positions with
\* quantity other than 0, and total_unrealized_pnl is the sum of their
\* unrealized_pnl, a missing one counting as 0.
C31_SummaryTopFiveAndPnl ==
    [][SummaryStep =>
        LET body   == response'.body
            listed == body.active_signals
            mine   == SignalsOf(response'.symbol)
        IN  /\ response'.status = 200
            /\ Len(listed) <= 5
            /\ \A i \in 1..Len(listed) : listed[i] \in mine
            /\ Len(listed) = (IF Cardinality(mine) < 5 THEN Cardinality(mine) ELSE 5)
            /\ \A i, j \in 1..Len(listed) : i < j => listed[i].id > listed[j].id
            /\ \A row \in mine \ RowSet(listed) :
                   \A i \in 1..Len(listed) : row.id < listed[i].id
            /\ RowSet(body.positions) =
                   {row \in RowSet(exchange_positions) : row.quantity # 0}
            /\ Len(body.positions) = Cardinality(RowSet(body.positions))
            /\ body.total_unrealized_pnl = PnlSum(body.positions)]_vars

\* C32: in the state before every step the summary of a symbol, with or
\* without rows of it in the tables, is a result and not an exception; and
\* every request to the summary endpoint is answered 200 and leaves
\* trading_indicators, latest_indicators, trading_signals,
\* exchange_positions, exchange_balances and the detector's _last_values as
\* they were.
C32_SummaryReadsOnly ==
    [][ /\ \A symbol \in {"BTCUSD", "SOLUSD"} :
              LET results == summaries(Tables, trading_signals, exchange_positions, symbol)
              IN  /\ results # {}
                  /\ \A summary \in results : "error" \notin DOMAIN summary
        /\ SummaryStep =>
              /\ response'.status = 200
              /\ UNCHANGED <<trading_indicators, indicator_seq, latest_indicators,
                             trading_signals, signal_seq, exchange_positions,
                             exchange_balances, _last_values>> ]_vars

\* the summary of a symbol without any row was answered while the tables
\* held signals, an indicator, a balance and only a closed position
C32_Witness ==
    /\ response.op = "get_summary" /\ response.status = 200
    /\ response.symbol = "SOLUSD"
    /\ response.body.price = None
    /\ response.body.active_signals = << >>
    /\ response.body.positions = << >>
    /\ response.body.total_unrealized_pnl = 0
    /\ trading_signals # << >>
    /\ trading_indicators # << >>
    /\ exchange_balances # << >>
    /\ Len(exchange_positions) = 1

====
